---- MODULE Spec2Model ----
(***************************************************************************)
(* Model of xen/common/v4v.c: the ring registry, the ring-buffer insertion *)
(* engine, the pending-waiter lists and the locks L1 (v4v_lock), L2        *)
(* (d->v4v->lock) and L3 (ring_info->lock).                                *)
(*                                                                         *)
(* A thread is a vCPU.  Every hypercall is cut into steps at the places    *)
(* where it takes a lock or touches guest memory; pc[t] is the step the    *)
(* thread is at, loc[t] holds the locals of the C functions on its stack.  *)
(***************************************************************************)
EXTENDS Integers, Sequences, FiniteSets, TLC

(***************************************************************************)
(* Program constants.                                                      *)
(***************************************************************************)
PAGE_SIZE == 4096
V4V_HTABLE_SIZE == 32
\* sizeof (struct v4v_ring_message_header): "the 128 bit header"
MSG_HDR == 16
\* sizeof (v4v_ring_t): the payload area starts here
RING_HDR == 64
\* offsetof(v4v_ring_t, rx_ptr), offsetof(v4v_ring_t, tx_ptr), offsetof(v4v_ring_t, len)
OFF_RX == 24
OFF_TX == 28
OFF_LEN == 32
OFF_MAGIC == 0
OFF_ID == 8
\* stands for the 64-bit V4V_RING_MAGIC, kept in one cell
V4V_RING_MAGIC == 168
V4V_DOMID_ANY == 32756
\* stands for the all-ones port of a filter rule; the ports of the model are less
V4V_PORT_ANY == 65535
ENOENT == 2
EAGAIN == 11
ENOMEM == 12
EFAULT == 14
EEXIST == 17
ENODEV == 19
EINVAL == 22
EMSGSIZE == 90
ECONNREFUSED == 111

(***************************************************************************)
(* Bounds of the model.                                                    *)
(***************************************************************************)
\* number of struct v4v_ring_info the allocator can hand out
MaxRings == 2
\* number of hypercalls issued in one behaviour
MaxCalls == 3
\* the same, where senders wait for space
MaxPendCalls == 4
\* the same, where rules are added to the filter table
MaxFilterCalls == 4
\* the same, where a sender waits for a notify and tries again
MaxWakeCalls == 6
\* the same, where the messages go round the end of the ring
MaxWrapCalls == 6

NoThread == 0
Doms == {1, 2, 3}
\* vCPUs: thread 1 and thread 3 belong to domain 1, thread 2 to domain 2,
\* thread 4 to domain 3
Threads == {1, 2, 3, 4}
DomOf(t) == IF t = 2 THEN 2 ELSE IF t = 4 THEN 3 ELSE 1
\* machine frames; frame 0 is never owned by a guest
Frames == {1, 2, 3}
\* the owner of a frame's page_info
FrameOwner(f) == IF f = 3 THEN 2 ELSE 1
RingSlots == 1 .. MaxRings

(***************************************************************************)
(* Arithmetic helpers.                                                     *)
(***************************************************************************)
V4V_ROUNDUP(a) == ((a + 15) \div 16) * 16

RECURSIVE Xor(_, _)
Xor(a, b) ==
    IF a = 0 THEN b
    ELSE IF b = 0 THEN a
    ELSE (((a % 2) + (b % 2)) % 2) + 2 * Xor(a \div 2, b \div 2)

v4v_hash_fn(id) ==
    Xor(Xor(Xor((id.port \div 65536) % 65536, id.port % 65536), id.domain),
        id.partner) % V4V_HTABLE_SIZE

(***************************************************************************)
(* Guest memory: a frame is a function from the offsets that were ever     *)
(* written to bytes; a byte never written reads 0.  The 32-bit words of    *)
(* the ring header are kept little-endian in four bytes; the magic and the *)
(* ring id are kept whole in the cell of their first byte.                 *)
(***************************************************************************)
Get8(m, o) == IF o \in DOMAIN m THEN m[o] ELSE 0

Put8(m, o, v) == [x \in (DOMAIN m) \cup {o} |-> IF x = o THEN v ELSE m[x]]

\* memcpy of the bytes bs to offset o of one page
PutBytes(m, o, bs) ==
    [x \in (DOMAIN m) \cup {o + k - 1 : k \in 1 .. Len(bs)} |->
        IF x >= o /\ x < o + Len(bs) THEN bs[x - o + 1] ELSE m[x]]

Word(v) == <<v % 256, (v \div 256) % 256, (v \div 65536) % 256, (v \div 16777216) % 256>>

Byte(c) == IF c \in Nat THEN c % 256 ELSE 255

Get32(m, o) ==
    Byte(Get8(m, o)) + 256 * Byte(Get8(m, o + 1)) + 65536 * Byte(Get8(m, o + 2))
        + 16777216 * Byte(Get8(m, o + 3))

Put32(m, o, v) == PutBytes(m, o, Word(v))

Get16(m, o) == Byte(Get8(m, o)) + 256 * Byte(Get8(m, o + 1))

Put16(m, o, v) == PutBytes(m, o, <<v % 256, (v \div 256) % 256>>)

\* copy_field_to_guest(ring_hnd, &ring, id)
PutId(m, id) ==
    Put16(Put16(Put32(m, OFF_ID, id.port), OFF_ID + 4, id.domain), OFF_ID + 8, id.partner)

\* copy_from_guest(&ring, ring_hnd, 1): the v4v_ring_t at the start of a page
ReadRing(m) ==
    [magic |-> Get8(m, OFF_MAGIC),
     id |-> [port |-> Get32(m, OFF_ID), domain |-> Get16(m, OFF_ID + 4),
             partner |-> Get16(m, OFF_ID + 8)],
     rx_ptr |-> Get32(m, OFF_RX), tx_ptr |-> Get32(m, OFF_TX), len |-> Get32(m, OFF_LEN)]

\* the guest lays a ring header out in one of its pages
WriteRing(m, h) ==
    Put32(Put32(Put32(PutId(Put8(m, OFF_MAGIC, h.magic), h.id), OFF_RX, h.rx_ptr),
                OFF_TX, h.tx_ptr), OFF_LEN, h.len)

EmptyPage == [x \in {} |-> 0]

(***************************************************************************)
(* State.                                                                  *)
(***************************************************************************)
VARIABLES
    v4v,        \* v4v[d]: d->v4v is not NULL
    ring_hash,  \* ring_hash[d][h]: the hlist d->v4v->ring_hash[h], head first;
                \* only the buckets that are not empty are kept
    ring_info,  \* the struct v4v_ring_info objects, by allocation slot
    pin,        \* pin[f]: type references this file holds on frame f
    mem,        \* guest memory, by frame
    l1,         \* v4v_lock
    l2,         \* l2[d]: d->v4v->lock
    domlock,    \* domlock[d]: the holder of domain_lock(d)
    evtchn,     \* evtchn[d]: the signals sent to d->v4v->evtchn_port so far
    pc,         \* pc[t]: where thread t is
    loc,        \* loc[t]: the locals of thread t
    giov,       \* giov[t]: the iovec array in the caller's memory
    ncalls,     \* hypercalls issued so far
    hist,       \* history: the ring ids refused with EEXIST, the messages published
                \* and not yet consumed, and the waiters <<ring, domain, len, stage>>:
                \* "again" once sendv returned EAGAIN, "freed" once the consumer
                \* advanced after that, "signalled" once a notify called after
                \* that signalled the domain, until the next sendv on the ring
    v4vtables_rules  \* the list v4vtables_rules, first rule first

vars ==
    <<v4v, ring_hash, ring_info, pin, mem, l1, l2, domlock, evtchn, pc, loc, giov, ncalls,
      hist, v4vtables_rules>>

NoId == [port |-> 0, domain |-> 0, partner |-> 0]

\* INIT_HLIST_HEAD of every bucket
NoBuckets == [h \in {} |-> <<>>]

FreeInfo ==
    [used |-> FALSE, id |-> NoId, lock |-> NoThread, len |-> 0,
     npage |-> 0, tx_ptr |-> 0, mfns |-> <<>>, pending |-> <<>>]

NoLock == [r |-> [t \in Threads |-> 0], w |-> NoThread]

NoAddr == [domain |-> 0, port |-> 0]

NoRing == [magic |-> 0, id |-> NoId, rx_ptr |-> 0, tx_ptr |-> 0, len |-> 0]

DefaultLoc ==
    [op |-> "none", ret |-> 0,
     hnd |-> 0, npage |-> 0, pfns |-> <<>>, ring |-> NoRing, info |-> 0,
     src |-> NoAddr, dst |-> NoAddr, proto |-> 0, niov |-> 0, len |-> 0,
     rx |-> 0, tx |-> 0, i |-> 0, pre |-> <<>>,
     ents |-> <<>>, todo |-> <<>>, space |-> 0, to_notify |-> <<>>, out |-> <<>>,
     rule |-> [accept |-> 0, src |-> NoAddr, dst |-> NoAddr],
     seen |-> {}, harv |-> {}, sig |-> {}, woken |-> FALSE, pub |-> FALSE,
     dref |-> 0]

NoIov == [readable |-> TRUE, iovs |-> <<>>]

Init ==
    /\ v4v = [d \in Doms |-> TRUE]
    /\ ring_hash = [d \in Doms |-> NoBuckets]
    /\ ring_info = [r \in RingSlots |-> FreeInfo]
    /\ pin = [f \in Frames |-> 0]
    /\ mem = [f \in Frames |-> EmptyPage]
    /\ l1 = NoLock
    /\ l2 = [d \in Doms |-> NoLock]
    /\ domlock = [d \in Doms |-> NoThread]
    /\ evtchn = [d \in Doms |-> 0]
    /\ pc = [t \in Threads |-> "idle"]
    /\ loc = [t \in Threads |-> DefaultLoc]
    /\ giov = [t \in Threads |-> NoIov]
    /\ ncalls = 0
    /\ hist = [eexist |-> {}, q |-> [r \in RingSlots |-> <<>>], wake |-> {}]
    /\ v4vtables_rules = <<>>

(***************************************************************************)
(* Locks.  A read lock is taken when no writer holds the lock, a write     *)
(* lock when nobody holds it; the reader count is kept per thread.         *)
(***************************************************************************)
CanRead(l) == l.w = NoThread

\* a write lock that does not wait for the readers
write_past_readers(l) == l.w = NoThread

CanWrite(l) == l.w = NoThread /\ \A t \in Threads : l.r[t] = 0

read_lock(l, t) == [l EXCEPT !.r[t] = @ + 1]

read_unlock(l, t) == [l EXCEPT !.r[t] = @ - 1]

\* do_v4v_op without domain_lock
domain_lock_absent(d) == TRUE

\* domain_lock(d) of do_v4v_op can be taken
domain_lock_free(d) == domlock[d] = NoThread

\* the hypercall of thread t ends with result rc: do_v4v_op is at "out"
RetWith(t, l, rc) ==
    /\ pc' = [pc EXCEPT ![t] = "ret"]
    /\ loc' = [loc EXCEPT ![t] = [l EXCEPT !.ret = rc]]

Ret(t, rc) == RetWith(t, loc[t], rc)

Goto(t, label, l) ==
    /\ pc' = [pc EXCEPT ![t] = label]
    /\ loc' = [loc EXCEPT ![t] = l]

(***************************************************************************)
(* Ring registry.                                                          *)
(***************************************************************************)
SameId(a, b) == a.port = b.port /\ a.domain = b.domain /\ a.partner = b.partner

RECURSIVE FindInBucket(_, _)
FindInBucket(bucket, id) ==
    IF bucket = <<>> THEN 0
    ELSE IF SameId(ring_info[Head(bucket)].id, id) THEN Head(bucket)
    ELSE FindInBucket(Tail(bucket), id)

\* the hlist d->v4v->ring_hash[h]
Bucket(d, h) == IF h \in DOMAIN ring_hash[d] THEN ring_hash[d][h] ELSE <<>>

v4v_ring_find_info(d, id) == FindInBucket(Bucket(d, v4v_hash_fn(id)), id)

RECURSIVE put_pages(_, _)
\* the loops of put_page_and_type over an mfns array
put_pages(p, mfns) ==
    IF mfns = <<>> THEN p
    ELSE put_pages(IF Head(mfns) # 0 THEN [p EXCEPT ![Head(mfns)] = @ - 1] ELSE p,
                   Tail(mfns))

RECURSIVE PinLoop(_, _, _, _, _)
\* the for loop of v4v_find_ring_mfns, from page Len(mfns) on
PinLoop(d, npage, pfns, p, mfns) ==
    IF Len(mfns) >= npage THEN [ret |-> 0, pin |-> p, mfns |-> mfns]
    ELSE IF Len(mfns) + 1 > Len(pfns) THEN [ret |-> -EFAULT, pin |-> p, mfns |-> mfns]
    ELSE LET mfn == pfns[Len(mfns) + 1] IN
         IF mfn \notin Frames THEN [ret |-> -EINVAL, pin |-> p, mfns |-> mfns]
         ELSE IF FrameOwner(mfn) # d THEN [ret |-> -EINVAL, pin |-> p, mfns |-> mfns]
         ELSE PinLoop(d, npage, pfns, [p EXCEPT ![mfn] = @ + 1], Append(mfns, mfn))

\* v4v_find_ring_mfns without the put_page_and_type loop of its failure path
find_ring_mfns_no_unpin(d, len, npage, pfns, p, memok) ==
    IF npage * PAGE_SIZE < len THEN [ret |-> -EINVAL, pin |-> p, mfns |-> <<>>]
    ELSE IF ~memok THEN [ret |-> -ENOMEM, pin |-> p, mfns |-> <<>>]
    ELSE LET r == PinLoop(d, npage, pfns, p, <<>>) IN
         IF r.ret = 0 THEN r ELSE [ret |-> r.ret, pin |-> r.pin, mfns |-> <<>>]

v4v_find_ring_mfns(d, len, npage, pfns, p, memok) ==
    IF npage * PAGE_SIZE < len THEN [ret |-> -EINVAL, pin |-> p, mfns |-> <<>>]
    ELSE IF ~memok THEN [ret |-> -ENOMEM, pin |-> p, mfns |-> <<>>]
    ELSE LET r == PinLoop(d, npage, pfns, p, <<>>) IN
         IF r.ret = 0 THEN r
         ELSE [ret |-> r.ret, pin |-> put_pages(r.pin, r.mfns), mfns |-> <<>>]

FreeSlots == {r \in RingSlots : ~ring_info[r].used}

LowestFree == CHOOSE r \in FreeSlots : \A q \in FreeSlots : r <= q

(***************************************************************************)
(* V4VOP_register_ring: do_v4v_op and v4v_ring_add.                        *)
(***************************************************************************)
\* hnd.f: the frame behind the ring handle, 0 when nothing is mapped there;
\* h: the header the guest wrote there before the call, or NoRing to leave it
RegisterCall(t, h, hnd, npage, pfns, pfn_ok) ==
    LET d == DomOf(t) IN
    /\ pc[t] = "idle"
    /\ domain_lock_free(d)
    /\ h # NoRing => hnd.f \in Frames /\ FrameOwner(hnd.f) = d /\ pin[hnd.f] = 0
    /\ hnd.f \in Frames => FrameOwner(hnd.f) = d
    /\ domlock' = [domlock EXCEPT ![d] = t]
    /\ ncalls' = ncalls + 1
    /\ mem' = IF h # NoRing THEN [mem EXCEPT ![hnd.f] = WriteRing(@, h)] ELSE mem
    /\ LET l == [DefaultLoc EXCEPT !.op = "register", !.hnd = hnd.f, !.npage = npage,
                                   !.pfns = pfns]
       IN IF ~pfn_ok THEN RetWith(t, l, -EFAULT)
          ELSE IF ~hnd.aligned THEN RetWith(t, l, -EINVAL)
          ELSE Goto(t, "add_l1", l)
    /\ UNCHANGED <<v4vtables_rules, v4v, evtchn, ring_hash, ring_info, pin, l1, l2, giov, hist>>

RingAddCheck(t) ==
    LET d == DomOf(t)
        ring0 == ReadRing(mem[loc[t].hnd])
        ring1 == [ring0 EXCEPT !.id.domain = d]
        ring2 == IF ring1.tx_ptr >= ring1.len \/ V4V_ROUNDUP(ring1.tx_ptr) # ring1.tx_ptr
                 THEN [ring1 EXCEPT !.tx_ptr = ring1.rx_ptr] ELSE ring1
    IN
    /\ pc[t] = "add_l1"
    /\ CanRead(l1)
    /\ IF ~v4v[d] THEN Ret(t, -EINVAL) /\ UNCHANGED <<mem, l1>>
       ELSE IF loc[t].hnd = 0 THEN Ret(t, -EFAULT) /\ UNCHANGED <<mem, l1>>
       ELSE IF ring0.magic # V4V_RING_MAGIC THEN Ret(t, -EINVAL) /\ UNCHANGED <<mem, l1>>
       ELSE IF \/ ring0.len < MSG_HDR + V4V_ROUNDUP(1) + V4V_ROUNDUP(1)
               \/ V4V_ROUNDUP(ring0.len) # ring0.len
            THEN Ret(t, -EINVAL) /\ UNCHANGED <<mem, l1>>
       ELSE /\ mem' = [mem EXCEPT ![loc[t].hnd] = Put32(PutId(@, ring1.id), OFF_TX, ring2.tx_ptr)]
            /\ l1' = read_lock(l1, t)
            /\ Goto(t, "add_l2r", [loc[t] EXCEPT !.ring = ring2])
    /\ UNCHANGED <<v4vtables_rules, v4v, evtchn, ring_hash, ring_info, pin, l2, domlock, giov, ncalls, hist>>

\* from read_lock(&d->v4v->lock) to the end of v4v_find_ring_mfns
RingAddFind(t, infook, memok) ==
    LET d == DomOf(t)
        ring == loc[t].ring
        found == v4v_ring_find_info(d, ring.id)
        r == v4v_find_ring_mfns(d, ring.len, loc[t].npage, loc[t].pfns, pin, memok)
        new == [used |-> TRUE, id |-> ring.id, lock |-> NoThread, len |-> ring.len,
                npage |-> IF r.ret = 0 THEN loc[t].npage ELSE 0, tx_ptr |-> ring.tx_ptr,
                mfns |-> r.mfns, pending |-> <<>>]
    IN
    /\ pc[t] = "add_l2r"
    /\ CanRead(l2[d])
    /\ IF found # 0
       THEN /\ l2' = [l2 EXCEPT ![d] = read_lock(@, t)]
            /\ l1' = read_unlock(l1, t)
            /\ Ret(t, -EEXIST)
            /\ hist' = [hist EXCEPT !.eexist = @ \cup {ring.id}]
            /\ UNCHANGED <<ring_info, pin>>
       ELSE IF ~infook \/ FreeSlots = {}
       THEN /\ l1' = read_unlock(l1, t)
            /\ Ret(t, -ENOMEM)
            /\ UNCHANGED <<ring_info, pin, l2, hist>>
       ELSE /\ ring_info' = [ring_info EXCEPT ![LowestFree] = new]
            /\ pin' = r.pin
            /\ hist' = [hist EXCEPT !.q[LowestFree] = <<>>,
                                    !.wake = {w \in @ : w[1] # LowestFree}]
            /\ IF r.ret # 0
               THEN l1' = read_unlock(l1, t) /\ Ret(t, r.ret)
               ELSE Goto(t, "add_l2w", [loc[t] EXCEPT !.info = LowestFree]) /\ UNCHANGED l1
            /\ UNCHANGED l2
    /\ UNCHANGED <<v4vtables_rules, v4v, evtchn, ring_hash, mem, domlock, giov, ncalls>>

\* hlist_add_head(&ring_info->node, &d->v4v->ring_hash[hash])
hlist_add_head(hashes, hash, r) ==
    [h \in (DOMAIN hashes) \cup {hash} |->
        IF h = hash THEN <<r>> \o (IF h \in DOMAIN hashes THEN hashes[h] ELSE <<>>)
        ELSE hashes[h]]

\* v4v_ring_add: write_lock(&d->v4v->lock)
RingAddLock(t) ==
    LET d == DomOf(t) IN
    /\ pc[t] = "add_l2w"
    /\ CanWrite(l2[d])
    /\ l2' = [l2 EXCEPT ![d].w = t]
    /\ Goto(t, "add_ins", loc[t])
    /\ UNCHANGED <<v4vtables_rules, v4v, evtchn, ring_hash, ring_info, pin, mem, l1, domlock, giov, ncalls, hist>>

\* hlist_add_head; write_unlock(&d->v4v->lock); read_unlock(&v4v_lock)
RingAddInsert(t) ==
    LET d == DomOf(t)
        hash == v4v_hash_fn(loc[t].ring.id)
    IN
    /\ pc[t] = "add_ins"
    /\ ring_hash' = [ring_hash EXCEPT ![d] = hlist_add_head(@, hash, loc[t].info)]
    /\ l2' = [l2 EXCEPT ![d].w = NoThread]
    /\ l1' = read_unlock(l1, t)
    /\ Ret(t, 0)
    /\ UNCHANGED <<v4vtables_rules, v4v, evtchn, ring_info, pin, mem, domlock, giov, ncalls, hist>>

(***************************************************************************)
(* V4VOP_unregister_ring and v4v_destroy.                                  *)
(***************************************************************************)
Without(bucket, r) == SelectSeq(bucket, LAMBDA x : x # r)

\* v4v_ring_remove_info: the registry of d once ring_info r is unlinked
hlist_del_ring(hashes, r) ==
    [h \in {x \in DOMAIN hashes : Without(hashes[x], r) # <<>>} |-> Without(hashes[h], r)]

\* v4v_ring_remove_mfns that frees the arrays and keeps the page references
remove_mfns_no_put(p, r) == p

\* v4v_ring_remove_mfns: the pin counts once the frames of r are released
v4v_ring_remove_mfns(p, r) == put_pages(p, ring_info[r].mfns)

RemoveCall(t, hnd) ==
    LET d == DomOf(t) IN
    /\ pc[t] = "idle"
    /\ domain_lock_free(d)
    /\ hnd \in Frames => FrameOwner(hnd) = d
    /\ domlock' = [domlock EXCEPT ![d] = t]
    /\ ncalls' = ncalls + 1
    /\ Goto(t, "rem_l1", [DefaultLoc EXCEPT !.op = "unregister", !.hnd = hnd])
    /\ UNCHANGED <<v4vtables_rules, v4v, evtchn, ring_hash, ring_info, pin, mem, l1, l2, giov, hist>>

RingRemoveCheck(t) ==
    LET d == DomOf(t)
        ring0 == ReadRing(mem[loc[t].hnd])
    IN
    /\ pc[t] = "rem_l1"
    /\ CanRead(l1)
    /\ IF ~v4v[d] THEN Ret(t, -EINVAL) /\ UNCHANGED l1
       ELSE IF loc[t].hnd = 0 THEN Ret(t, -EFAULT) /\ UNCHANGED l1
       ELSE IF ring0.magic # V4V_RING_MAGIC THEN Ret(t, -EINVAL) /\ UNCHANGED l1
       ELSE /\ l1' = read_lock(l1, t)
            /\ Goto(t, "rem_l2w", [loc[t] EXCEPT !.ring = [ring0 EXCEPT !.id.domain = d]])
    /\ UNCHANGED <<v4vtables_rules, v4v, evtchn, ring_hash, ring_info, pin, mem, l2, domlock, giov, ncalls, hist>>

\* v4v_ring_remove: write_lock(&d->v4v->lock)
RingRemoveLock(t) ==
    LET d == DomOf(t) IN
    /\ pc[t] = "rem_l2w"
    /\ CanWrite(l2[d])
    /\ l2' = [l2 EXCEPT ![d].w = t]
    /\ Goto(t, "rem_info", loc[t])
    /\ UNCHANGED <<v4vtables_rules, v4v, evtchn, ring_hash, ring_info, pin, mem, l1, domlock, giov, ncalls, hist>>

\* v4v_ring_find_info; v4v_ring_remove_info; write_unlock; read_unlock(&v4v_lock)
RingRemoveDo(t) ==
    LET d == DomOf(t)
        r == v4v_ring_find_info(d, loc[t].ring.id)
    IN
    /\ pc[t] = "rem_info"
    /\ l2' = [l2 EXCEPT ![d].w = NoThread]
    /\ IF r # 0
       THEN /\ ring_info[r].lock = NoThread
            /\ ring_hash' = [ring_hash EXCEPT ![d] = hlist_del_ring(@, r)]
            /\ pin' = v4v_ring_remove_mfns(pin, r)
            /\ ring_info' = [ring_info EXCEPT ![r] = FreeInfo]
            /\ Ret(t, 0)
       ELSE /\ Ret(t, -ENOENT)
            /\ UNCHANGED <<ring_hash, pin, ring_info>>
    /\ l1' = read_unlock(l1, t)
    /\ UNCHANGED <<v4vtables_rules, v4v, evtchn, mem, domlock, giov, ncalls, hist>>

RingsOf(d) == {r \in RingSlots : \E h \in DOMAIN ring_hash[d] :
                                  \E k \in 1 .. Len(ring_hash[d][h]) : ring_hash[d][h][k] = r}

RECURSIVE put_all(_, _)
\* the frames of every ring of the set rs released
put_all(p, rs) ==
    IF rs = {} THEN p
    ELSE LET r == CHOOSE x \in rs : TRUE IN put_all(v4v_ring_remove_mfns(p, r), rs \ {r})

\* v4v_destroy(d), called when d is dying: all of it runs under W(L1)
Destroy(d) ==
    /\ v4v[d]
    /\ CanWrite(l1)
    /\ \A r \in RingsOf(d) : ring_info[r].lock = NoThread
    /\ ring_hash' = [ring_hash EXCEPT ![d] = NoBuckets]
    /\ pin' = put_all(pin, RingsOf(d))
    /\ ring_info' = [r \in RingSlots |-> IF r \in RingsOf(d) THEN FreeInfo ELSE ring_info[r]]
    /\ v4v' = [v4v EXCEPT ![d] = FALSE]
    /\ UNCHANGED <<v4vtables_rules, mem, l1, l2, domlock, evtchn, pc, loc, giov, ncalls, hist>>

(***************************************************************************)
(* Access to a ring through the frames of its RingInfo.                    *)
(***************************************************************************)
RECURSIVE CopyLoop(_, _, _, _, _)
\* the while loop and the tail of v4v_memcpy_to_guest_ring, from page on
CopyLoop(m, info, page, off, bs) ==
    IF page >= info.npage THEN [ret |-> -EFAULT, mem |-> m]
    ELSE IF off + Len(bs) > PAGE_SIZE
    THEN CopyLoop([m EXCEPT ![info.mfns[page + 1]] =
                        PutBytes(@, off, SubSeq(bs, 1, PAGE_SIZE - off))],
                  info, page + 1, 0, SubSeq(bs, PAGE_SIZE - off + 1, Len(bs)))
    ELSE [ret |-> 0, mem |-> [m EXCEPT ![info.mfns[page + 1]] = PutBytes(@, off, bs)]]

v4v_memcpy_to_guest_ring(m, info, offset, bs) ==
    CopyLoop(m, info, (offset \div PAGE_SIZE) % info.npage, offset % PAGE_SIZE, bs)

\* write_atomic of v4v_update_rx_ptr and of v4v_update_tx_ptr: page 0 of the ring
update_ptr(m, info, off, v) == [m EXCEPT ![info.mfns[1]] = Put32(@, off, v)]

\* the guest's view of its ring: the word at byte o of the ring's pages
RingGet32(m, info, o) ==
    IF o \div PAGE_SIZE < info.npage
    THEN Get32(m[info.mfns[(o \div PAGE_SIZE) + 1]], o % PAGE_SIZE)
    ELSE 0

GuestRx(r) == Get32(mem[ring_info[r].mfns[1]], OFF_RX)

GuestTx(r) == Get32(mem[ring_info[r].mfns[1]], OFF_TX)

v4v_ring_find_info_by_addr(d, a, p) ==
    LET exact == v4v_ring_find_info(d, [port |-> a.port, domain |-> d, partner |-> p])
    IN IF exact # 0 THEN exact
       ELSE v4v_ring_find_info(d, [port |-> a.port, domain |-> d, partner |-> V4V_DOMID_ANY])

v4v_ringbuf_payload_space(r) ==
    LET rx == GuestRx(r)
        tx == ring_info[r].tx_ptr
        len == ring_info[r].len
        ret == (IF rx - tx < 0 THEN rx - tx + len ELSE rx - tx) - MSG_HDR - V4V_ROUNDUP(1)
    IN IF ring_info[r].npage = 0 THEN 0
       ELSE IF rx = tx THEN len - MSG_HDR
       ELSE IF ret < 0 THEN 0 ELSE ret

RECURSIVE SumLen(_, _)
SumLen(iovs, n) == IF n = 0 THEN 0 ELSE iovs[n].iov_len + SumLen(iovs, n - 1)

\* g: the iovec array in the caller's memory
v4v_iov_count(g, niov) ==
    IF niov = 0 THEN 0
    ELSE IF ~g.readable \/ niov > Len(g.iovs) THEN -EFAULT
    ELSE SumLen(g.iovs, niov)

\* evtchn_send(d, d->v4v->evtchn_port)
v4v_signal_domain(e, d) == [e EXCEPT ![d] = @ + 1]

(***************************************************************************)
(* Pending waiters of a ring: a list of [id, len], head first.             *)
(***************************************************************************)
v4v_pending_queue(pending, src_id, len) == <<[id |-> src_id, len |-> len]>> \o pending

\* v4v_pending_requeue that never looks for the entry of the sender
requeue_always_queues(pending, src_id, len) == v4v_pending_queue(pending, src_id, len)

\* v4v_pending_requeue that leaves an entry it finds as it is
requeue_keeps_len(pending, src_id, len) ==
    IF \E k \in 1 .. Len(pending) : pending[k].id = src_id THEN pending
    ELSE v4v_pending_queue(pending, src_id, len)

\* v4v_pending_requeue that takes the new length for the old one
requeue_sets_len(pending, src_id, len) ==
    IF \E k \in 1 .. Len(pending) : pending[k].id = src_id
    THEN [k \in 1 .. Len(pending) |->
            IF pending[k].id = src_id THEN [pending[k] EXCEPT !.len = len] ELSE pending[k]]
    ELSE v4v_pending_queue(pending, src_id, len)

v4v_pending_requeue(pending, src_id, len) ==
    IF \E k \in 1 .. Len(pending) : pending[k].id = src_id
    THEN LET k == CHOOSE i \in 1 .. Len(pending) :
                    pending[i].id = src_id /\ \A j \in 1 .. i - 1 : pending[j].id # src_id
         IN [pending EXCEPT ![k].len = IF @ < len THEN len ELSE @]
    ELSE v4v_pending_queue(pending, src_id, len)

\* the requeue allocates an entry
NeedsAlloc(pending, src_id) == \A k \in 1 .. Len(pending) : pending[k].id # src_id

v4v_pending_cancel(pending, src_id) == SelectSeq(pending, LAMBDA e : e.id # src_id)

(***************************************************************************)
(* The filter table: v4vtables_rules, a list of [accept, src, dst].  Every  *)
(* function below runs from lock to unlock of v4vtables_rules_lock in one   *)
(* step, so the lock has no state of its own.                               *)
(***************************************************************************)
\* the test of one rule in the loop of v4vtables_check
RuleMatches(rule, src, dst) ==
    /\ rule.src.domain = V4V_DOMID_ANY \/ rule.src.domain = src.domain
    /\ rule.src.port = V4V_PORT_ANY \/ rule.src.port = src.port
    /\ rule.dst.domain = V4V_DOMID_ANY \/ rule.dst.domain = dst.domain
    /\ rule.dst.port = V4V_PORT_ANY \/ rule.dst.port = dst.port

RECURSIVE check_last_match(_, _, _)
\* v4vtables_check without the break: the last rule that matches decides
check_last_match(rules, src, dst) ==
    IF rules = <<>> THEN 0
    ELSE IF RuleMatches(rules[Len(rules)], src, dst)
    THEN (IF rules[Len(rules)].accept # 0 THEN 0 ELSE 1)
    ELSE check_last_match(SubSeq(rules, 1, Len(rules) - 1), src, dst)

RECURSIVE v4vtables_check(_, _, _)
\* 0 is accept; ret = !node->rule.accept of the first rule that matches
v4vtables_check(rules, src, dst) ==
    IF rules = <<>> THEN 0
    ELSE IF RuleMatches(Head(rules), src, dst)
    THEN (IF Head(rules).accept # 0 THEN 0 ELSE 1)
    ELSE v4vtables_check(Tail(rules), src, dst)

RECURSIVE ListWalk(_, _, _)
\* the while loop of v4vtables_add: the number of nodes tmp has gone past
ListWalk(n, position, k) ==
    IF position # 0 /\ k < n THEN ListWalk(n, position - 1, k + 1) ELSE k

\* list_add(&new->list, tmp): new is linked right after the k-th node
list_add(rules, rule, k) == SubSeq(rules, 1, k) \o <<rule>> \o SubSeq(rules, k + 1, Len(rules))

\* v4vtables_add without position--
tables_add_zero_based(rules, rule, position) ==
    list_add(rules, rule, ListWalk(Len(rules), position, 0))

v4vtables_add(rules, rule, position) ==
    list_add(rules, rule, ListWalk(Len(rules), position - 1, 0))

\* list_del of the k-th node, k = 0 when there is no node to delete
list_del(rules, k) ==
    IF k = 0 THEN rules ELSE SubSeq(rules, 1, k - 1) \o SubSeq(rules, k + 1, Len(rules))

RECURSIVE DelWalk(_, _, _)
\* the list_for_each of v4vtables_del by position: <<the node to_delete (0 for
\* NULL), position at the end of the loop>>
DelWalk(n, position, k) ==
    IF k >= n THEN <<k, position>>
    ELSE IF position = 0 THEN <<k + 1, 0>>
    ELSE DelWalk(n, position - 1, k + 1)

\* the rule the second list_for_each of v4vtables_del stops at, 0 when none
FirstSame(rules, r) ==
    LET same == {k \in 1 .. Len(rules) :
                    /\ rules[k].src.domain = r.src.domain /\ rules[k].src.port = r.src.port
                    /\ rules[k].dst.domain = r.dst.domain /\ rules[k].dst.port = r.dst.port}
    IN IF same = {} THEN 0 ELSE CHOOSE k \in same : \A j \in same : k <= j

NoRule == [accept |-> 0, src |-> NoAddr, dst |-> NoAddr]

\* r: the rule behind rule_hnd, NoRule for a null handle
v4vtables_del(rules, r, position) ==
    IF position # -1
    THEN LET w == DelWalk(Len(rules), position, 0)
         IN list_del(rules, IF w[2] # 0 THEN 0 ELSE w[1])
    ELSE IF r # NoRule THEN list_del(rules, FirstSame(rules, r))
    ELSE <<>>

\* do_v4v_op: V4VOP_tables_add, from domain_lock to the write_unlock
TablesAddCall(t, rule, position, memok, readable) ==
    LET d == DomOf(t)
        l == [DefaultLoc EXCEPT !.op = "tables_add", !.rule = rule, !.i = position]
    IN
    /\ pc[t] = "idle"
    /\ domain_lock_free(d)
    /\ domlock' = [domlock EXCEPT ![d] = t]
    /\ ncalls' = ncalls + 1
    /\ IF ~memok THEN RetWith(t, l, -ENOMEM) /\ UNCHANGED v4vtables_rules
       ELSE IF ~readable THEN RetWith(t, l, -EFAULT) /\ UNCHANGED v4vtables_rules
       ELSE /\ v4vtables_rules' = v4vtables_add(v4vtables_rules, rule, position)
            /\ RetWith(t, l, 0)
    /\ UNCHANGED <<v4v, evtchn, ring_hash, ring_info, pin, mem, l1, l2, giov, hist>>

\* do_v4v_op: V4VOP_tables_del, from domain_lock to the write_unlock
TablesDelCall(t, rule, position, readable) ==
    LET d == DomOf(t)
        l == [DefaultLoc EXCEPT !.op = "tables_del", !.rule = rule, !.i = position]
    IN
    /\ pc[t] = "idle"
    /\ domain_lock_free(d)
    /\ domlock' = [domlock EXCEPT ![d] = t]
    /\ ncalls' = ncalls + 1
    /\ IF position = -1 /\ rule # NoRule /\ ~readable
       THEN RetWith(t, l, -EFAULT) /\ UNCHANGED v4vtables_rules
       ELSE /\ v4vtables_rules' = v4vtables_del(v4vtables_rules, rule, position)
            /\ RetWith(t, l, 0)
    /\ UNCHANGED <<v4v, evtchn, ring_hash, ring_info, pin, mem, l1, l2, giov, hist>>

(***************************************************************************)
(* V4VOP_sendv: do_v4v_op, v4v_sendv and v4v_ringbuf_insertv.              *)
(***************************************************************************)
SendvCall(t, src, dst, proto, g, niov) ==
    LET d == DomOf(t) IN
    /\ pc[t] = "idle"
    /\ domain_lock_free(d)
    /\ domlock' = [domlock EXCEPT ![d] = t]
    /\ ncalls' = ncalls + 1
    /\ giov' = [giov EXCEPT ![t] = g]
    /\ Goto(t, "sendv_l1", [DefaultLoc EXCEPT !.op = "sendv", !.src = src, !.dst = dst,
                                              !.proto = proto, !.niov = niov,
                                              !.sig = {w \in hist.wake : w[4] = "signalled"}])
    /\ UNCHANGED <<v4vtables_rules, v4v, evtchn, ring_hash, ring_info, pin, mem, l1, l2, hist>>

\* from read_lock(&v4v_lock) to the test of dst_d->v4v; dref is the domain whose
\* reference, taken by get_domain_by_id, the call holds (0: none); the exit
\* through the filter returns without put_domain
SendvLookup(t) ==
    LET held == [loc[t] EXCEPT !.dref = loc[t].dst.domain] IN
    /\ pc[t] = "sendv_l1"
    /\ CanRead(l1)
    /\ IF ~v4v[DomOf(t)] THEN Ret(t, -EINVAL) /\ UNCHANGED l1
       ELSE IF loc[t].dst.domain \notin Doms THEN Ret(t, -ECONNREFUSED) /\ UNCHANGED l1
       ELSE IF v4vtables_check(v4vtables_rules, loc[t].src, loc[t].dst) # 0
       THEN RetWith(t, held, -ECONNREFUSED) /\ UNCHANGED l1
       ELSE IF ~v4v[loc[t].dst.domain] THEN Ret(t, -ECONNREFUSED) /\ UNCHANGED l1
       ELSE l1' = read_lock(l1, t) /\ Goto(t, "sendv_l2", held)
    /\ UNCHANGED <<v4vtables_rules, v4v, evtchn, ring_hash, ring_info, pin, mem, l2, domlock, giov, ncalls, hist>>

\* read_lock(&dst_d->v4v->lock), v4v_ring_find_info_by_addr and v4v_iov_count
SendvFind(t) ==
    LET dst_d == loc[t].dst.domain
        r == v4v_ring_find_info_by_addr(dst_d, loc[t].dst, loc[t].src.domain)
        len == v4v_iov_count(giov[t], loc[t].niov)
    IN
    /\ pc[t] = "sendv_l2"
    /\ CanRead(l2[dst_d])
    /\ IF r = 0
       THEN /\ RetWith(t, [loc[t] EXCEPT !.dref = 0], -ECONNREFUSED)
            /\ l1' = read_unlock(l1, t)
            /\ UNCHANGED l2
       ELSE IF len < 0
       THEN /\ RetWith(t, [loc[t] EXCEPT !.dref = 0], len)
            /\ l2' = [l2 EXCEPT ![dst_d] = read_lock(@, t)]
            /\ l1' = read_unlock(l1, t)
       ELSE /\ Goto(t, "sendv_l3", [loc[t] EXCEPT !.info = r, !.len = len])
            /\ l2' = [l2 EXCEPT ![dst_d] = read_lock(@, t)]
            /\ UNCHANGED l1
    /\ UNCHANGED <<v4vtables_rules, v4v, evtchn, ring_hash, ring_info, pin, mem, domlock, giov, ncalls, hist>>

\* a size test that lets a message as long as the ring through
msg_longer_than_ring(len, cap) == V4V_ROUNDUP(len) + MSG_HDR > cap

\* the test of v4v_ringbuf_insertv for a message that can never fit
msg_too_big(len, cap) == V4V_ROUNDUP(len) + MSG_HDR >= cap

\* a space test that lets a message through that fills the free space to the
\* last byte
fills_space(len, sp) == V4V_ROUNDUP(len) + MSG_HDR > sp

\* the EAGAIN test of v4v_ringbuf_insertv: the message and its header do not
\* leave a byte of the sp free bytes free
no_space(len, sp) == V4V_ROUNDUP(len) + MSG_HDR >= sp

\* spin_lock(&ring_info->lock) and v4v_ringbuf_insertv up to its first write
\* to the ring
InsStart(t) ==
    LET r == loc[t].info
        info == ring_info[r]
        len == loc[t].len
        rx == GuestRx(r)
        tx == info.tx_ptr
        sp == IF rx - tx < 0 THEN rx - tx + info.len ELSE rx - tx
        pre == <<tx, GuestTx(r), rx>>
        woken == <<r, DomOf(t), len, "signalled">> \in hist.wake \cap loc[t].sig
    IN
    /\ pc[t] = "sendv_l3"
    /\ info.lock = NoThread
    /\ IF msg_too_big(len, info.len)
       THEN /\ ring_info' = [ring_info EXCEPT ![r].lock = t]
            /\ Goto(t, "ins_exit", [loc[t] EXCEPT !.ret = -EMSGSIZE, !.pre = pre, !.woken = woken])
       ELSE IF rx = tx /\ tx # 0
       THEN /\ ring_info' = [ring_info EXCEPT ![r].lock = t, ![r].tx_ptr = 0]
            /\ Goto(t, "ins_reset_tx", [loc[t] EXCEPT !.rx = 0, !.tx = 0, !.pre = pre, !.woken = woken])
       ELSE IF rx # tx /\ no_space(len, sp)
       THEN /\ ring_info' = [ring_info EXCEPT ![r].lock = t]
            /\ Goto(t, "ins_exit", [loc[t] EXCEPT !.ret = -EAGAIN, !.rx = rx, !.tx = tx,
                                                  !.pre = pre, !.woken = woken])
       ELSE /\ ring_info' = [ring_info EXCEPT ![r].lock = t]
            /\ Goto(t, "ins_hdr", [loc[t] EXCEPT !.rx = rx, !.tx = tx, !.pre = pre, !.woken = woken])
    /\ hist' = [hist EXCEPT !.wake = {w \in @ : w[1] # r \/ (w[2] # DomOf(t) /\ w[4] # "signalled")}]
    /\ UNCHANGED <<v4vtables_rules, v4v, evtchn, ring_hash, pin, mem, l1, l2, domlock, giov, ncalls>>

\* the empty-ring reset: v4v_update_tx_ptr(ring_info, 0)
InsResetTx(t) ==
    /\ pc[t] = "ins_reset_tx"
    /\ mem' = update_ptr(mem, ring_info[loc[t].info], OFF_TX, loc[t].tx)
    /\ Goto(t, "ins_reset_rx", loc[t])
    /\ UNCHANGED <<v4vtables_rules, v4v, evtchn, ring_hash, ring_info, pin, l1, l2, domlock, giov, ncalls, hist>>

\* an empty-ring reset that leaves the guest's rx_ptr alone
reset_without_rx(t) ==
    /\ pc[t] = "ins_reset_rx"
    /\ Goto(t, "ins_hdr", loc[t])
    /\ UNCHANGED <<v4vtables_rules, v4v, evtchn, ring_hash, ring_info, pin, mem, l1, l2, domlock, giov, ncalls, hist>>

\* the empty-ring reset: v4v_update_rx_ptr(ring_info, 0)
InsResetRx(t) ==
    /\ pc[t] = "ins_reset_rx"
    /\ mem' = update_ptr(mem, ring_info[loc[t].info], OFF_RX, loc[t].rx)
    /\ Goto(t, "ins_hdr", loc[t])
    /\ UNCHANGED <<v4vtables_rules, v4v, evtchn, ring_hash, ring_info, pin, l1, l2, domlock, giov, ncalls, hist>>

\* struct v4v_ring_message_header as it lies in the ring
MsgHeader(len, port, domain, proto) ==
    Word(len) \o Word(port) \o <<domain % 256, (domain \div 256) % 256, 0, 0>> \o Word(proto)

\* the copy of the message header to ring.tx_ptr
InsHdr(t) ==
    LET r == loc[t].info
        info == ring_info[r]
        mh == MsgHeader(loc[t].len + MSG_HDR, loc[t].src.port, DomOf(t), loc[t].proto)
        w == v4v_memcpy_to_guest_ring(mem, info, loc[t].tx + RING_HDR, mh)
        tx == loc[t].tx + MSG_HDR
    IN
    /\ pc[t] = "ins_hdr"
    /\ mem' = w.mem
    /\ IF w.ret # 0 THEN Goto(t, "ins_exit", [loc[t] EXCEPT !.ret = w.ret])
       ELSE Goto(t, IF loc[t].niov = 0 THEN "ins_pub" ELSE "ins_iov",
                 [loc[t] EXCEPT !.tx = IF tx = info.len THEN 0 ELSE tx, !.i = 1])
    /\ UNCHANGED <<v4vtables_rules, v4v, evtchn, ring_hash, ring_info, pin, l1, l2, domlock, giov, ncalls, hist>>

\* one turn of the while ( niov-- ) loop
InsIov(t) ==
    LET r == loc[t].info
        info == ring_info[r]
        g == giov[t]
        iov == g.iovs[loc[t].i]
        sp == info.len - loc[t].tx
        split == iov.iov_len > sp
        w1 == IF split
              THEN v4v_memcpy_to_guest_ring(mem, info, loc[t].tx + RING_HDR,
                                            SubSeq(iov.data, 1, sp))
              ELSE [ret |-> 0, mem |-> mem]
        tx1 == IF split THEN 0 ELSE loc[t].tx
        rest == IF split THEN SubSeq(iov.data, sp + 1, iov.iov_len) ELSE iov.data
        w2 == v4v_memcpy_to_guest_ring(w1.mem, info, tx1 + RING_HDR, rest)
        tx2 == tx1 + Len(rest)
        last == loc[t].i = loc[t].niov
    IN
    /\ pc[t] = "ins_iov"
    /\ IF ~g.readable \/ loc[t].i > Len(g.iovs)
       THEN Goto(t, "ins_exit", [loc[t] EXCEPT !.ret = -EFAULT]) /\ UNCHANGED mem
       ELSE IF ~iov.okay
       THEN Goto(t, "ins_exit", [loc[t] EXCEPT !.ret = -EFAULT]) /\ UNCHANGED mem
       ELSE IF w1.ret # 0
       THEN /\ mem' = w1.mem
            /\ Goto(t, "ins_exit", [loc[t] EXCEPT !.ret = w1.ret])
       ELSE /\ mem' = w2.mem
            /\ IF w2.ret # 0 THEN Goto(t, "ins_exit", [loc[t] EXCEPT !.ret = w2.ret])
               ELSE Goto(t, IF last THEN "ins_pub" ELSE "ins_iov",
                         [loc[t] EXCEPT !.tx = IF tx2 = info.len THEN 0 ELSE tx2,
                                        !.i = @ + 1])
    /\ UNCHANGED <<v4vtables_rules, v4v, evtchn, ring_hash, ring_info, pin, l1, l2, domlock, giov, ncalls, hist>>

\* where the message of an insert starts: pre is <<ring_info->tx_ptr, the guest's
\* tx_ptr word, the guest's rx_ptr word>> as v4v_ringbuf_insertv found them
MsgStart(pre) == IF pre[3] = pre[1] THEN 0 ELSE pre[1]

RECURSIVE IovData(_, _)
\* the bytes of the first n iovs, in the order the while loop copies them
IovData(iovs, n) == IF n = 0 THEN <<>> ELSE IovData(iovs, n - 1) \o iovs[n].data

\* ring.tx_ptr rounded up, ring_info->tx_ptr = ring.tx_ptr, v4v_update_tx_ptr
InsPublish(t) ==
    LET r == loc[t].info
        info == ring_info[r]
        up == V4V_ROUNDUP(loc[t].tx)
        tx == IF up >= info.len THEN up - info.len ELSE up
    IN
    /\ pc[t] = "ins_pub"
    /\ ring_info' = [ring_info EXCEPT ![r].tx_ptr = tx]
    /\ mem' = update_ptr(mem, info, OFF_TX, tx)
    /\ hist' = [hist EXCEPT !.q[r] = Append(@, [off |-> MsgStart(loc[t].pre),
                                                len |-> loc[t].len + MSG_HDR,
                                                src |-> <<DomOf(t), loc[t].src.port>>,
                                                data |-> IovData(giov[t].iovs, loc[t].niov)])]
    /\ Goto(t, "ins_exit", [loc[t] EXCEPT !.tx = tx, !.ret = loc[t].len, !.pub = TRUE])
    /\ UNCHANGED <<v4vtables_rules, v4v, evtchn, ring_hash, pin, l1, l2, domlock, giov, ncalls>>

\* v4v_ring_unmap, the return of v4v_ringbuf_insertv, v4v_pending_requeue on
\* EAGAIN and spin_unlock(&ring_info->lock)
InsExit(t, memok) ==
    LET r == loc[t].info
        again == loc[t].ret = -EAGAIN
        nomem == again /\ NeedsAlloc(ring_info[r].pending, DomOf(t)) /\ ~memok
    IN
    /\ pc[t] = "ins_exit"
    /\ ring_info' = [ring_info EXCEPT
            ![r].pending = IF again /\ ~nomem
                           THEN v4v_pending_requeue(@, DomOf(t), loc[t].len) ELSE @,
            ![r].lock = NoThread]
    /\ Goto(t, "sendv_fin", [loc[t] EXCEPT !.ret = IF nomem THEN -ENOMEM ELSE @])
    /\ hist' = IF again /\ ~nomem
                THEN [hist EXCEPT !.wake = @ \cup {<<r, DomOf(t), loc[t].len, "again">>}]
                ELSE hist
    /\ UNCHANGED <<v4vtables_rules, v4v, evtchn, ring_hash, pin, mem, l1, l2, domlock, giov, ncalls>>

\* every sendv signals the destination, whatever it returns
signal_always(e, ret, d) == v4v_signal_domain(e, d)

\* if ( ret >= 0 ) v4v_signal_domain(dst_d)
sendv_signal(e, ret, d) == IF ret >= 0 THEN v4v_signal_domain(e, d) ELSE e

\* v4v_signal_domain when ret >= 0, read_unlock of L2, put_domain, read_unlock of L1
SendvFinish(t) ==
    /\ pc[t] = "sendv_fin"
    /\ l2' = [l2 EXCEPT ![loc[t].dst.domain] = read_unlock(@, t)]
    /\ l1' = read_unlock(l1, t)
    /\ evtchn' = sendv_signal(evtchn, loc[t].ret, loc[t].dst.domain)
    /\ RetWith(t, [loc[t] EXCEPT !.dref = 0], loc[t].ret)
    /\ UNCHANGED <<v4vtables_rules, v4v, ring_hash, ring_info, pin, mem, domlock, giov, ncalls, hist>>

(***************************************************************************)
(* The consumer in the guest that owns a ring: it reads the message at     *)
(* rx_ptr and moves rx_ptr past it.                                        *)
(***************************************************************************)
Consume(r) ==
    LET info == ring_info[r]
        rx == GuestRx(r)
        mhlen == RingGet32(mem, info, rx + RING_HDR)
    IN
    /\ r \in UNION {RingsOf(d) : d \in Doms}
    /\ rx # GuestTx(r)
    /\ rx < info.len
    /\ mhlen >= MSG_HDR
    /\ mem' = update_ptr(mem, info, OFF_RX, (rx + V4V_ROUNDUP(mhlen)) % info.len)
    /\ hist' = [hist EXCEPT !.q[r] = IF @ = <<>> THEN @ ELSE Tail(@),
                            !.wake = {IF w[1] = r /\ w[4] = "again"
                                      THEN <<w[1], w[2], w[3], "freed">> ELSE w : w \in @}]
    /\ UNCHANGED <<v4vtables_rules, v4v, evtchn, ring_hash, ring_info, pin, l1, l2, domlock, pc, loc, giov, ncalls>>

(***************************************************************************)
(* V4VOP_notify: v4v_notify, v4v_notify_ring, v4v_fill_ring_datas.         *)
(***************************************************************************)
RECURSIVE Flatten(_, _, _)
\* the rings of d in the order of the two loops of v4v_notify
Flatten(d, h, acc) ==
    IF h >= V4V_HTABLE_SIZE THEN acc ELSE Flatten(d, h + 1, acc \o Bucket(d, h))

\* ents: the v4v_ring_data_ent_t array behind the handle, << >> for a null
\* handle; hnd_ok: the v4v_ring_data_t behind the handle can be read
NotifyCall(t, ents, hnd_ok) ==
    LET d == DomOf(t) IN
    /\ pc[t] = "idle"
    /\ domain_lock_free(d)
    /\ domlock' = [domlock EXCEPT ![d] = t]
    /\ ncalls' = ncalls + 1
    /\ Goto(t, "ntf_l1", [DefaultLoc EXCEPT !.op = "notify", !.ents = ents,
                                            !.hnd = IF hnd_ok THEN 1 ELSE 0,
                                            !.seen = {w \in hist.wake : w[4] = "freed"}])
    /\ UNCHANGED <<v4vtables_rules, v4v, evtchn, ring_hash, ring_info, pin, mem, l1, l2, giov, hist>>

\* read_lock(&v4v_lock) and the test of d->v4v
NotifyStart(t) ==
    /\ pc[t] = "ntf_l1"
    /\ CanRead(l1)
    /\ IF ~v4v[DomOf(t)] THEN Ret(t, -ENODEV) /\ UNCHANGED l1
       ELSE l1' = read_lock(l1, t) /\ Goto(t, "ntf_l2", loc[t])
    /\ UNCHANGED <<v4vtables_rules, v4v, evtchn, ring_hash, ring_info, pin, mem, l2, domlock, giov, ncalls, hist>>

\* read_lock(&d->v4v->lock): the walk over the hash table starts
NotifyLock(t) ==
    LET d == DomOf(t)
        todo == Flatten(d, 0, <<>>)
    IN
    /\ pc[t] = "ntf_l2"
    /\ CanRead(l2[d])
    /\ l2' = [l2 EXCEPT ![d] = read_lock(@, t)]
    /\ Goto(t, IF todo = <<>> THEN "ntf_unl" ELSE "ntf_space", [loc[t] EXCEPT !.todo = todo])
    /\ UNCHANGED <<v4vtables_rules, v4v, evtchn, ring_hash, ring_info, pin, mem, l1, domlock, giov, ncalls, hist>>

\* v4v_notify_ring: spin_lock, v4v_ringbuf_payload_space, spin_unlock
NotifyRingSpace(t) ==
    LET r == Head(loc[t].todo) IN
    /\ pc[t] = "ntf_space"
    /\ ring_info[r].lock = NoThread
    /\ Goto(t, "ntf_find", [loc[t] EXCEPT !.space = v4v_ringbuf_payload_space(r)])
    /\ UNCHANGED <<v4vtables_rules, v4v, evtchn, ring_hash, ring_info, pin, mem, l1, l2, domlock, giov, ncalls, hist>>

RECURSIVE Harvest(_, _, _)
\* the loop of v4v_pending_find: the entries moved to the head of to_notify
Harvest(pending, space, to_notify) ==
    IF pending = <<>> THEN to_notify
    ELSE Harvest(Tail(pending), space,
                 IF space >= Head(pending).len THEN <<Head(pending)>> \o to_notify
                 ELSE to_notify)

\* the payload_space v4v_notify_ring hands to v4v_pending_find
notify_ring_space(t) == loc[t].space

\* v4v_pending_find under its own spin_lock, then the next ring
NotifyRingFind(t) ==
    LET r == Head(loc[t].todo)
        space == notify_ring_space(t)
        rest == Tail(loc[t].todo)
        pending == ring_info[r].pending
    IN
    /\ pc[t] = "ntf_find"
    /\ ring_info[r].lock = NoThread
    /\ ring_info' = [ring_info EXCEPT ![r].pending = SelectSeq(@, LAMBDA e : ~(space >= e.len))]
    /\ Goto(t, IF rest = <<>> THEN "ntf_unl" ELSE "ntf_space",
            [loc[t] EXCEPT !.todo = rest,
                           !.to_notify = Harvest(pending, space, @),
                           !.harv = @ \cup {w \in loc[t].seen :
                                               /\ w[1] = r
                                               /\ \E k \in 1 .. Len(pending) :
                                                    /\ pending[k] = [id |-> w[2], len |-> w[3]]
                                                    /\ space >= pending[k].len}])
    /\ UNCHANGED <<v4vtables_rules, v4v, evtchn, ring_hash, pin, mem, l1, l2, domlock, giov, ncalls, hist>>

\* get_domain_by_id finds the domain: a domain that is dying, its v4v state
\* destroyed, is still in the domain list
get_domain_by_id(id) == id \in Doms

RECURSIVE v4v_pending_notify(_, _)
\* v4v_signal_domid of every entry of to_notify
v4v_pending_notify(e, to_notify) ==
    IF to_notify = <<>> THEN e
    ELSE v4v_pending_notify(IF get_domain_by_id(Head(to_notify).id)
                            THEN v4v_signal_domain(e, Head(to_notify).id) ELSE e,
                            Tail(to_notify))

\* read_unlock(&d->v4v->lock), v4v_pending_notify and, with a ring_data handle,
\* read_lock(&v4v_lock) of v4v_fill_ring_datas
NotifyUnlock(t) ==
    LET d == DomOf(t) IN
    /\ pc[t] = "ntf_unl"
    /\ CanRead(l1)
    /\ l2' = [l2 EXCEPT ![d] = read_unlock(@, t)]
    /\ evtchn' = v4v_pending_notify(evtchn, loc[t].to_notify)
    /\ IF loc[t].ents = <<>>
       THEN l1' = read_unlock(l1, t) /\ Ret(t, 0)
       ELSE IF loc[t].hnd = 0
       THEN l1' = read_unlock(l1, t) /\ Ret(t, -EFAULT)
       ELSE l1' = read_lock(l1, t) /\ Goto(t, "ntf_fill", [loc[t] EXCEPT !.to_notify = <<>>, !.i = 1])
    /\ hist' = [hist EXCEPT !.wake = {IF w \in loc[t].harv
                                      THEN <<w[1], w[2], w[3], "signalled">> ELSE w : w \in @}]
    /\ UNCHANGED <<v4vtables_rules, v4v, ring_hash, ring_info, pin, mem, domlock, giov, ncalls>>

\* v4v_fill_ring_data of entry loc[t].i, and after the last one the two
\* read_unlock(&v4v_lock)
NotifyFill(t, memok) ==
    LET src_d == DomOf(t)
        ent == loc[t].ents[loc[t].i]
        dst_d == ent.ring.domain
        there == dst_d \in Doms /\ v4v[dst_d]
        r == IF there THEN v4v_ring_find_info_by_addr(dst_d, ent.ring, src_d) ELSE 0
        space_avail == v4v_ringbuf_payload_space(r)
        max_message_size == ring_info[r].len - MSG_HDR - V4V_ROUNDUP(1)
        flags == IF r = 0 THEN {}
                 ELSE {"EXISTS"}
                      \cup (IF space_avail >= ent.space_required THEN {"SUFFICIENT"}
                            ELSE {"PENDING"})
                      \cup (IF space_avail = max_message_size THEN {"EMPTY"} ELSE {})
        pending == IF space_avail >= ent.space_required
                   THEN v4v_pending_cancel(ring_info[r].pending, src_d)
                   ELSE IF NeedsAlloc(ring_info[r].pending, src_d) /\ ~memok
                   THEN ring_info[r].pending
                   ELSE v4v_pending_requeue(ring_info[r].pending, src_d, ent.space_required)
        last == loc[t].i = Len(loc[t].ents)
    IN
    /\ pc[t] = "ntf_fill"
    /\ there => CanRead(l2[dst_d])
    /\ r # 0 => ring_info[r].lock = NoThread
    /\ ring_info' = IF r = 0 THEN ring_info ELSE [ring_info EXCEPT ![r].pending = pending]
    /\ l1' = IF last THEN read_unlock(read_unlock(l1, t), t) ELSE l1
    /\ IF last THEN RetWith(t, [loc[t] EXCEPT !.out = Append(@, flags)], 0)
       ELSE Goto(t, "ntf_fill", [loc[t] EXCEPT !.out = Append(@, flags), !.i = @ + 1])
    /\ UNCHANGED <<v4vtables_rules, v4v, evtchn, ring_hash, pin, mem, l2, domlock, giov, ncalls, hist>>

\* do_v4v_op: out: domain_unlock(d); return rc
Return(t) ==
    /\ pc[t] = "ret"
    /\ domlock' = [domlock EXCEPT ![DomOf(t)] = NoThread]
    /\ pc' = [pc EXCEPT ![t] = "idle"]
    /\ loc' = [loc EXCEPT ![t] = DefaultLoc]
    /\ UNCHANGED <<v4vtables_rules, v4v, evtchn, ring_hash, ring_info, pin, mem, l1, l2, giov, ncalls, hist>>

(***************************************************************************)
(* The registry alone: register_ring, unregister_ring and v4v_destroy of   *)
(* domain 1, called from its two vCPUs.                                    *)
(***************************************************************************)
RegThreads == {1, 3}

Hdr(port, partner, rx, tx, len) ==
    [magic |-> V4V_RING_MAGIC, id |-> [port |-> port, domain |-> 0, partner |-> partner],
     rx_ptr |-> rx, tx_ptr |-> tx, len |-> len]

RegArg(h, f, aligned, npage, pfns, ok) ==
    [h |-> h, hnd |-> [f |-> f, aligned |-> aligned], npage |-> npage, pfns |-> pfns,
     ok |-> ok]

\* well-formed registrations, and one wrong in each way v4v_ring_add rejects
RegArgs ==
    {RegArg(Hdr(1, 2, 0, 0, 64), 1, TRUE, 1, <<1>>, TRUE),
     RegArg(Hdr(1, V4V_DOMID_ANY, 0, 0, 64), 2, TRUE, 1, <<2>>, TRUE),
     RegArg(Hdr(33, 2, 0, 16, 4096), 2, TRUE, 2, <<2, 1>>, TRUE),
     RegArg(NoRing, 1, TRUE, 1, <<1>>, TRUE),
     RegArg(Hdr(1, 2, 40, 100, 48), 1, TRUE, 1, <<1>>, TRUE),
     RegArg(Hdr(1, 2, 0, 4032, 4096), 1, TRUE, 1, <<1>>, TRUE),
     RegArg(Hdr(1, 2, 0, 0, 40), 1, TRUE, 1, <<1>>, TRUE),
     RegArg([Hdr(1, 2, 0, 0, 64) EXCEPT !.magic = 0], 1, TRUE, 1, <<1>>, TRUE),
     RegArg(NoRing, 1, FALSE, 1, <<1>>, TRUE),
     RegArg(NoRing, 0, TRUE, 1, <<1>>, TRUE),
     RegArg(NoRing, 1, TRUE, 1, <<1>>, FALSE),
     RegArg(Hdr(2, 2, 0, 0, 64), 2, TRUE, 2, <<2, 3>>, TRUE),
     RegArg(Hdr(2, 2, 0, 0, 64), 2, TRUE, 2, <<2>>, TRUE),
     RegArg(Hdr(2, 2, 0, 0, 64), 2, TRUE, 1, <<0>>, TRUE),
     RegArg(Hdr(2, 2, 0, 0, 64), 2, TRUE, 0, <<>>, TRUE)}

NextReg ==
    \/ \E t \in RegThreads, a \in RegArgs :
            ncalls < MaxCalls /\ RegisterCall(t, a.h, a.hnd, a.npage, a.pfns, a.ok)
    \/ \E t \in RegThreads : RingAddCheck(t)
    \/ \E t \in RegThreads, infook \in BOOLEAN, memok \in BOOLEAN : RingAddFind(t, infook, memok)
    \/ \E t \in RegThreads : RingAddLock(t)
    \/ \E t \in RegThreads : RingAddInsert(t)
    \/ \E t \in RegThreads, hnd \in {0, 1, 2} : ncalls < MaxCalls /\ RemoveCall(t, hnd)
    \/ \E t \in RegThreads : RingRemoveCheck(t)
    \/ \E t \in RegThreads : RingRemoveLock(t)
    \/ \E t \in RegThreads : RingRemoveDo(t)
    \/ \E d \in {1} : Destroy(d)
    \/ \E t \in RegThreads : Return(t)

SpecReg == Init /\ [][NextReg]_vars

(***************************************************************************)
(* Properties of the registry.                                             *)
(***************************************************************************)
Linked == UNION {RingsOf(d) : d \in Doms}

\* C4: every RingInfo in a registry has len a multiple of 16, tx_ptr < len and
\* tx_ptr a multiple of 16, whatever ring header the guest registered.
C4_RingInfoWellFormed ==
    \A r \in Linked :
        /\ ring_info[r].len % 16 = 0
        /\ ring_info[r].tx_ptr < ring_info[r].len
        /\ ring_info[r].tx_ptr % 16 = 0

\* C5: the frames of every registered ring cover the ring header and the
\* payload area: npage * PAGE_SIZE >= header_size + len.
C5_FramesCoverRing ==
    \A r \in Linked : ring_info[r].npage * PAGE_SIZE >= RING_HDR + ring_info[r].len

Occurrences(d, r) ==
    Cardinality({<<h, k>> \in (0 .. V4V_HTABLE_SIZE - 1) \X (1 .. MaxRings + 1) :
                    k <= Len(Bucket(d, h)) /\ Bucket(d, h)[k] = r})

\* C7: a registry holds at most one RingInfo per (port, domain, partner), and
\* every RingInfo is linked once, in the bucket of the hash of its id, of the
\* registry of its owning domain.
C7_RegistryUnique ==
    \A d \in Doms :
        /\ \A r, q \in RingsOf(d) : r # q => ~SameId(ring_info[r].id, ring_info[q].id)
        /\ \A r \in RingsOf(d) :
            /\ ring_info[r].id.domain = d
            /\ Occurrences(d, r) = 1
            /\ \E k \in 1 .. Len(Bucket(d, v4v_hash_fn(ring_info[r].id))) :
                    Bucket(d, v4v_hash_fn(ring_info[r].id))[k] = r
            /\ \A e \in Doms \ {d} : r \notin RingsOf(e)

\* two rings of one port are registered and a third registration of one of
\* them was refused
C7_Witness ==
    /\ Cardinality(RingsOf(1)) = 2
    /\ \E t \in Threads : pc[t] = "ret" /\ loc[t].op = "register" /\ loc[t].ret = -EEXIST

CountIn(f, mfns) == Cardinality({k \in 1 .. Len(mfns) : mfns[k] = f})

RECURSIVE SumOver(_, _)
SumOver(f, rs) ==
    IF rs = {} THEN 0
    ELSE LET r == CHOOSE x \in rs : TRUE
         IN CountIn(f, ring_info[r].mfns) + SumOver(f, rs \ {r})

\* C8: a frame is pinned once for each place it has in the frame list of a
\* RingInfo that exists; once unregister_ring has returned 0 the ring is in no
\* registry, and once v4v_destroy has run the domain has no ring and no frame
\* of it is pinned.
C8_UnpinnedOnceGone ==
    /\ \A f \in Frames : pin[f] = SumOver(f, {r \in RingSlots : ring_info[r].used})
    /\ \A t \in Threads :
        pc[t] = "ret" /\ loc[t].op = "unregister" /\ loc[t].ret = 0
            => v4v_ring_find_info(DomOf(t), loc[t].ring.id) = 0
    /\ \A d \in Doms :
        ~v4v[d] => RingsOf(d) = {} /\ \A f \in Frames : FrameOwner(f) = d => pin[f] = 0

\* unregister_ring of a ring of two frames has returned 0
C8_Witness ==
    \E t \in Threads :
        /\ pc[t] = "ret" /\ loc[t].op = "unregister" /\ loc[t].ret = 0
        /\ loc[t].ring.len = 4096
        /\ \A f \in Frames : pin[f] = 0

InRegister(t) == loc[t].op = "register" /\ pc[t] \in {"add_l1", "add_l2r", "add_l2w", "add_ins"}

LinkedInfo == [r \in Linked |-> ring_info[r]]

\* C9: a step of register_ring other than its last, successful one changes no
\* registry and no RingInfo of a registry, and a step that ends the call with
\* an error leaves every frame with the pin count it had before the step (the
\* frames are pinned in the step that fails).
C9_FailedRegisterNoEffect ==
    [][\A t \in Threads :
        /\ ((pc[t] = "idle" \/ InRegister(t)) /\ pc'[t] # pc[t] /\ loc'[t].op = "register"
                /\ ~(pc'[t] = "ret" /\ loc'[t].ret = 0))
            => ring_hash' = ring_hash /\ LinkedInfo' = LinkedInfo
        /\ (InRegister(t) /\ pc'[t] = "ret" /\ loc'[t].ret < 0) => pin' = pin]_vars

\* a registration was refused after it had pinned its first frame, while a
\* ring is registered
C9_Witness ==
    \E t \in Threads :
        /\ pc[t] = "ret" /\ loc[t].op = "register" /\ loc[t].ret = -EINVAL
        /\ loc[t].pfns = <<2, 3>> /\ loc[t].ring.len = 64
        /\ RingsOf(1) # {}

\* C10: once register_ring has returned EEXIST for a ring id, an
\* unregister_ring of that id by the same domain returns 0 in the end: when it
\* waits for W(L2) and no other vCPU is inside a hypercall, it can take the lock
\* (a thread that waits alone for a lock it cannot take waits for ever).
C10_UnregisterAfterEexist ==
    \A t \in Threads :
        (/\ pc[t] = "rem_l2w"
         /\ loc[t].ring.id \in hist.eexist
         /\ \A u \in Threads \ {t} : pc[u] = "idle")
            => ENABLED RingRemoveLock(t)

(***************************************************************************)
(* Sending: domain 1 registers rings, domain 2 sends to them and the       *)
(* consumer of domain 1 reads.                                             *)
(***************************************************************************)
Bytes(n, v) == [k \in 1 .. n |-> v]

Iov(n, v, okay) == [iov_len |-> n, okay |-> okay, data |-> Bytes(n, v)]

Addr(domain, port) == [domain |-> domain, port |-> port]

SendArg(dst, iovs, readable, niov) ==
    [src |-> Addr(0, 5), dst |-> dst, proto |-> 3,
     g |-> [readable |-> readable, iovs |-> iovs], niov |-> niov]

\* an empty ring of 64 bytes whose pointers are not 0, in one frame, and a ring
\* of 4096 bytes in one frame
SendRegArgs ==
    {RegArg(Hdr(1, 2, 32, 32, 64), 1, TRUE, 1, <<1>>, TRUE),
     RegArg(Hdr(2, 2, 0, 4032, 4096), 2, TRUE, 1, <<2>>, TRUE)}

SendArgs ==
    {SendArg(Addr(1, 1), <<Iov(16, 7, TRUE)>>, TRUE, 1),
     SendArg(Addr(1, 1), <<Iov(8, 5, TRUE), Iov(8, 6, TRUE)>>, TRUE, 2),
     SendArg(Addr(1, 1), <<Iov(8, 5, TRUE), Iov(8, 6, FALSE)>>, TRUE, 2),
     SendArg(Addr(1, 1), <<Iov(48, 7, TRUE)>>, TRUE, 1),
     SendArg(Addr(1, 1), <<Iov(16, 7, TRUE)>>, FALSE, 1),
     SendArg(Addr(1, 2), <<Iov(16, 1, TRUE)>>, TRUE, 1),
     SendArg(Addr(1, 2), <<Iov(16, 1, TRUE), Iov(8, 6, FALSE)>>, TRUE, 2),
     SendArg(Addr(1, 9), <<Iov(16, 7, TRUE)>>, TRUE, 1),
     SendArg(Addr(7, 1), <<Iov(16, 7, TRUE)>>, TRUE, 1)}

NextSend ==
    \/ \E a \in SendRegArgs :
            ncalls < MaxCalls /\ RegisterCall(1, a.h, a.hnd, a.npage, a.pfns, a.ok)
    \/ RingAddCheck(1)
    \/ \E infook \in BOOLEAN, memok \in BOOLEAN : RingAddFind(1, infook, memok)
    \/ RingAddLock(1)
    \/ RingAddInsert(1)
    \/ \E a \in SendArgs :
            ncalls < MaxCalls
                /\ SendvCall(2, [a.src EXCEPT !.domain = 2], a.dst, a.proto, a.g, a.niov)
    \/ SendvLookup(2)
    \/ SendvFind(2)
    \/ InsStart(2)
    \/ InsResetTx(2)
    \/ InsResetRx(2)
    \/ InsHdr(2)
    \/ InsIov(2)
    \/ InsPublish(2)
    \/ \E memok \in BOOLEAN : InsExit(2, memok)
    \/ SendvFinish(2)
    \/ \E r \in RingSlots : Consume(r)
    \/ \E t \in {1, 2} : Return(t)

SpecSend == Init /\ [][NextSend]_vars

\* the frames of ring r cover its header and its payload area
Covered(r) == ring_info[r].npage * PAGE_SIZE >= RING_HDR + ring_info[r].len

RECURSIVE Chain(_, _, _)
\* the messages of q lie one after the other from offset off to the guest's tx_ptr
Chain(r, off, q) ==
    IF q = <<>> THEN off = GuestTx(r)
    ELSE /\ Head(q).off = off
         /\ RingGet32(mem, ring_info[r], off + RING_HDR) = Head(q).len
         /\ Chain(r, (off + V4V_ROUNDUP(Head(q).len)) % ring_info[r].len, Tail(q))

\* C1: whenever the consumer of a ring that was registered empty and whose
\* frames cover it reads rx_ptr # tx_ptr, the bytes from rx_ptr to tx_ptr are
\* the complete messages that were published and not yet consumed, in order;
\* this holds at every step of a sendv, the empty-ring reset included.
C1_ConsumerSeesWholeMessages ==
    \A r \in Linked :
        Covered(r) /\ GuestRx(r) # GuestTx(r)
            => hist.q[r] # <<>> /\ Chain(r, GuestRx(r), hist.q[r])

\* the message header that lies at payload offset off of ring r, as the guest
\* reads it: <<len, source port, source domain, message_type>>
HeaderAt(r, off) ==
    <<RingGet32(mem, ring_info[r], RING_HDR + off),
      RingGet32(mem, ring_info[r], RING_HDR + off + 4),
      RingGet32(mem, ring_info[r], RING_HDR + off + 8) % 65536,
      RingGet32(mem, ring_info[r], RING_HDR + off + 12)>>

\* C20: when v4v_ringbuf_insertv has published a message of p payload bytes
\* that it wrote at offset t (0 after the empty-ring reset), its result is p,
\* ring_info->tx_ptr and the tx_ptr word of the guest ring are
\* (t + HDR + roundup16(p)) mod len, and the header at offset t reads
\* len = p + HDR, source = (calling domain, supplied source port),
\* message_type = the supplied protocol.
C20_SendResultAndHeader ==
    \A t \in Threads :
        pc[t] = "ins_exit" /\ loc[t].pub
            => LET r == loc[t].info
                   p == loc[t].len
                   off == MsgStart(loc[t].pre)
                   tx == (off + MSG_HDR + V4V_ROUNDUP(p)) % ring_info[r].len
               IN /\ loc[t].ret = p
                  /\ ring_info[r].tx_ptr = tx
                  /\ GuestTx(r) = tx
                  /\ HeaderAt(r, off) = <<p + MSG_HDR, loc[t].src.port, DomOf(t), loc[t].proto>>

\* v4v_ringbuf_insertv of thread t found the ring empty with pointers that
\* are not 0 and went on to the empty-ring reset
WasReset(t) ==
    loc[t].pre # <<>> /\ loc[t].pre[3] = loc[t].pre[1] /\ loc[t].pre[1] # 0
        /\ loc[t].ret # -EMSGSIZE

C22_TooBigOrFits ==
    [][\A t \in Threads :
        LET r == loc[t].info
            big == V4V_ROUNDUP(loc[t].len) + MSG_HDR >= ring_info[r].len
        IN
        /\ pc[t] = "sendv_l3" /\ pc'[t] # "sendv_l3"
            => /\ loc'[t].ret = -EMSGSIZE <=> big
               /\ big => /\ pc'[t] = "ins_exit"
                          /\ ring_info' = [ring_info EXCEPT ![r].lock = t]
                          /\ mem' = mem /\ evtchn' = evtchn
               /\ ~big /\ GuestRx(r) = ring_info[r].tx_ptr => loc'[t].ret # -EAGAIN
        /\ pc'[t] # pc[t] /\ pc[t] # "sendv_l3" /\ loc'[t].op = "sendv"
            => /\ loc'[t].ret = -EMSGSIZE => loc[t].ret = -EMSGSIZE
               /\ loc'[t].ret = -EAGAIN => loc[t].ret = -EAGAIN
        /\ pc'[t] # pc[t] /\ pc[t] \in {"ins_exit", "sendv_fin"} /\ loc[t].ret = -EMSGSIZE
            => /\ loc'[t].ret = -EMSGSIZE
               /\ mem' = mem /\ evtchn' = evtchn
               /\ ring_info' = [ring_info EXCEPT ![r].lock =
                                    IF pc[t] = "ins_exit" THEN NoThread ELSE @]]_vars

\* one sendv has returned EMSGSIZE and one that found the ring empty has
\* inserted its message
C22_Witness ==
    /\ \E t \in Threads : pc[t] = "ret" /\ loc[t].op = "sendv" /\ loc[t].ret = -EMSGSIZE
    /\ \E r \in RingSlots : hist.q[r] # <<>>

\* C2: when v4v_ringbuf_insertv is about to return an error, ring_info->tx_ptr
\* and the tx_ptr word of the guest ring are what they were when it was
\* entered, or the ring was empty on entry and both are 0.
C2_FailedSendKeepsTx ==
    \A t \in Threads :
        pc[t] = "ins_exit" /\ loc[t].ret < 0
            => LET r == loc[t].info
                   pre == loc[t].pre
               IN \/ ring_info[r].tx_ptr = pre[1] /\ GuestTx(r) = pre[2]
                  \/ pre[3] = pre[1] /\ ring_info[r].tx_ptr = 0 /\ GuestTx(r) = 0

\* C3: whenever L3 of a registered ring is free, ring_info->tx_ptr equals the
\* tx_ptr word of the guest ring, which only the hypervisor writes.
C3_CachedTxMirrorsGuest ==
    \A r \in Linked : ring_info[r].lock = NoThread => ring_info[r].tx_ptr = GuestTx(r)

(***************************************************************************)
(* Addresses and the filter table: domain 1 owns two rings of port 1, one  *)
(* for partner 2 and one for any partner, and edits the filter table;      *)
(* domain 2 and domain 3 send, each under its own domain id or under the   *)
(* other's.                                                                *)
(***************************************************************************)
FilterRegArgs ==
    {RegArg(Hdr(1, 2, 0, 0, 64), 1, TRUE, 1, <<1>>, TRUE),
     RegArg(Hdr(1, V4V_DOMID_ANY, 0, 0, 64), 2, TRUE, 1, <<2>>, TRUE)}

Rule(accept, sd, sport, dd, dport) ==
    [accept |-> accept, src |-> Addr(sd, sport), dst |-> Addr(dd, dport)]

FilterRules ==
    {Rule(0, 2, V4V_PORT_ANY, 1, V4V_PORT_ANY),
     Rule(1, V4V_DOMID_ANY, V4V_PORT_ANY, V4V_DOMID_ANY, V4V_PORT_ANY),
     Rule(0, V4V_DOMID_ANY, 5, 1, 9)}

FilterSenders == {2, 4}

\* the source domains a sender writes into its v4v_send_addr_t
FilterSrcDoms == {2, 3}

FilterDsts == {Addr(1, 1), Addr(1, 9), Addr(7, 1)}

NextFilter ==
    \/ \E a \in FilterRegArgs :
            ncalls < MaxFilterCalls /\ RegisterCall(1, a.h, a.hnd, a.npage, a.pfns, a.ok)
    \/ RingAddCheck(1)
    \/ RingAddFind(1, TRUE, TRUE)
    \/ RingAddLock(1)
    \/ RingAddInsert(1)
    \/ \E rule \in FilterRules, position \in 0 .. 3, ok \in {<<TRUE, TRUE>>, <<TRUE, FALSE>>,
                                                           <<FALSE, TRUE>>} :
            ncalls < MaxFilterCalls /\ TablesAddCall(1, rule, position, ok[1], ok[2])
    \/ \E rule \in FilterRules \cup {NoRule}, position \in -1 .. 2, readable \in BOOLEAN :
            /\ ncalls < MaxFilterCalls
            /\ position # -1 => rule = NoRule /\ readable
            /\ rule = NoRule => readable
            /\ TablesDelCall(1, rule, position, readable)
    \/ \E t \in FilterSenders, sd \in FilterSrcDoms, dst \in FilterDsts :
            ncalls < MaxFilterCalls
                /\ SendvCall(t, Addr(sd, 5), dst, 3, [readable |-> TRUE, iovs |-> <<Iov(16, 7, TRUE)>>], 1)
    \/ \E t \in FilterSenders : SendvLookup(t)
    \/ \E t \in FilterSenders : SendvFind(t)
    \/ \E t \in FilterSenders : InsStart(t)
    \/ \E t \in FilterSenders : InsHdr(t)
    \/ \E t \in FilterSenders : InsIov(t)
    \/ \E t \in FilterSenders : InsPublish(t)
    \/ \E t \in FilterSenders : InsExit(t, TRUE)
    \/ \E t \in FilterSenders : SendvFinish(t)
    \/ Destroy(1)
    \/ \E t \in {1, 2, 4} : Return(t)

SpecFilter == Init /\ [][NextFilter]_vars

\* the ring of dst_d for port and partner, 0 when there is none
RingFor(dst_d, port, partner) ==
    v4v_ring_find_info(dst_d, [port |-> port, domain |-> dst_d, partner |-> partner])

\* C11: the step of sendv that looks the destination ring up, made by a vCPU of
\* domain B, takes the ring with partner = B when the destination has one, the
\* ring with partner = DOMID_ANY when it has that one only, and ends with
\* CONN_REFUSED only when it has neither.
C11_ExactPartnerWins ==
    [][\A t \in Threads :
        pc[t] = "sendv_l2" /\ pc'[t] # "sendv_l2"
            => LET dst_d == loc[t].dst.domain
                   exact == RingFor(dst_d, loc[t].dst.port, DomOf(t))
                   any == RingFor(dst_d, loc[t].dst.port, V4V_DOMID_ANY)
               IN /\ exact # 0 /\ pc'[t] = "sendv_l3" => loc'[t].info = exact
                  /\ any # 0 /\ pc'[t] = "sendv_l3" /\ loc'[t].info = any => exact = 0
                  /\ exact # 0 => loc'[t].ret # -ECONNREFUSED
                  /\ loc'[t].ret = -ECONNREFUSED => exact = 0 /\ any = 0]_vars

\* C12: a sendv that has inserted a message into a ring whose partner is not
\* DOMID_ANY was called by the partner domain.
C12_OnlyPartnerInserts ==
    \A t \in Threads :
        pc[t] = "ins_exit" /\ loc[t].ret >= 0
            => ring_info[loc[t].info].id.partner \in {V4V_DOMID_ANY, DomOf(t)}

\* the rules of a list that match a query, by position
Matching(rules, src, dst) == {k \in 1 .. Len(rules) : RuleMatches(rules[k], src, dst)}

\* the verdict of the first rule that matches, accept when none does
FirstVerdictAccepts(rules, src, dst) ==
    LET m == Matching(rules, src, dst)
    IN m = {} \/ rules[CHOOSE k \in m : \A j \in m : k <= j].accept # 0

QuerySrcs == {Addr(2, 5), Addr(3, 5), Addr(2, 6), Addr(1, V4V_PORT_ANY)}

\* C13: for every rule list and every query, v4vtables_check accepts exactly
\* when the first rule in list order whose four fields are equal to the query's
\* or are the wildcard is an accept rule, or no rule matches.
C13_CheckIsFirstMatch ==
    \A src \in QuerySrcs, dst \in FilterDsts :
        (v4vtables_check(v4vtables_rules, src, dst) = 0)
            <=> FirstVerdictAccepts(v4vtables_rules, src, dst)

\* a sendv was refused by a list of two rules that both match it, a reject rule
\* before an accept rule
C13_Witness ==
    \E t \in Threads :
        /\ pc[t] = "ret" /\ loc[t].op = "sendv" /\ loc[t].ret = -ECONNREFUSED
        /\ loc[t].dst = Addr(1, 1)
        /\ Len(v4vtables_rules) = 2
        /\ Matching(v4vtables_rules, loc[t].src, loc[t].dst) = {1, 2}
        /\ v4vtables_rules[1].accept = 0 /\ v4vtables_rules[2].accept = 1

\* C14: a step of sendv made while the destination domain does not exist, the
\* first rule that matches (calling domain, source port) -> destination is a
\* reject rule, the destination has no v4v state, or the destination has no
\* ring for the port with the calling domain or DOMID_ANY as partner, ends the
\* call with CONN_REFUSED and changes no ring, no pending list and no event
\* channel.
C14_RefusedSendNoEffect ==
    [][\A t \in Threads :
        LET dst == loc[t].dst
            caller == Addr(DomOf(t), loc[t].src.port)
            refused == /\ pc'[t] = "ret" /\ loc'[t].ret = -ECONNREFUSED
                       /\ UNCHANGED <<ring_info, mem, evtchn>>
        IN /\ (/\ pc[t] = "sendv_l1" /\ pc'[t] # "sendv_l1" /\ v4v[DomOf(t)]
               /\ \/ dst.domain \notin Doms
                  \/ ~FirstVerdictAccepts(v4vtables_rules, caller, dst)
                  \/ ~v4v[dst.domain])
                => refused
           /\ (/\ pc[t] = "sendv_l2" /\ pc'[t] # "sendv_l2"
               /\ RingFor(dst.domain, dst.port, DomOf(t)) = 0
               /\ RingFor(dst.domain, dst.port, V4V_DOMID_ANY) = 0)
                => refused]_vars

\* C15: a tables_add that returns 0 for position p >= 1 makes the new rule the
\* p-th rule, or the last one when p is beyond the end; for every position the
\* list grows by one and the rules it held keep their contents and their order.
C15_AddKeepsRules ==
    [][\A t \in Threads :
        pc[t] = "idle" /\ pc'[t] = "ret" /\ loc'[t].op = "tables_add" /\ loc'[t].ret = 0
            => LET old == v4vtables_rules
                   new == v4vtables_rules'
                   p == loc'[t].i
               IN /\ Len(new) = Len(old) + 1
                  /\ \E k \in 1 .. Len(new) :
                        /\ new[k] = loc'[t].rule
                        /\ \A j \in 1 .. Len(old) : old[j] = new[IF j < k THEN j ELSE j + 1]
                        /\ p >= 1 => k = IF p <= Len(new) THEN p ELSE Len(new)]_vars

\* a rule was added at position 2 of a list of two other rules
C15_Witness ==
    \E t \in Threads :
        /\ pc[t] = "ret" /\ loc[t].op = "tables_add" /\ loc[t].ret = 0 /\ loc[t].i = 2
        /\ Len(v4vtables_rules) = 3
        /\ v4vtables_rules[2] = loc[t].rule
        /\ v4vtables_rules[1] # loc[t].rule /\ v4vtables_rules[3] # loc[t].rule

(***************************************************************************)
(* Waking a waiter: domain 1 owns one ring open to any partner, consumes   *)
(* and notifies; domain 2 and domain 3 send 16 bytes at a time.            *)
(***************************************************************************)
WakeRegArg == RegArg(Hdr(1, V4V_DOMID_ANY, 0, 0, 64), 1, TRUE, 1, <<1>>, TRUE)

WakeSendArg == SendArg(Addr(1, 1), <<Iov(16, 7, TRUE)>>, TRUE, 1)

WakeSenders == {2, 4}

NextWake ==
    \/ ncalls < MaxWakeCalls
            /\ RegisterCall(1, WakeRegArg.h, WakeRegArg.hnd, WakeRegArg.npage, WakeRegArg.pfns,
                            WakeRegArg.ok)
    \/ RingAddCheck(1)
    \/ RingAddFind(1, TRUE, TRUE)
    \/ RingAddLock(1)
    \/ RingAddInsert(1)
    \/ \E t \in WakeSenders :
            ncalls < MaxWakeCalls
                /\ SendvCall(t, [WakeSendArg.src EXCEPT !.domain = DomOf(t)], WakeSendArg.dst,
                             WakeSendArg.proto, WakeSendArg.g, WakeSendArg.niov)
    \/ \E t \in WakeSenders : SendvLookup(t)
    \/ \E t \in WakeSenders : SendvFind(t)
    \/ \E t \in WakeSenders : InsStart(t)
    \/ \E t \in WakeSenders : InsResetTx(t)
    \/ \E t \in WakeSenders : InsResetRx(t)
    \/ \E t \in WakeSenders : InsHdr(t)
    \/ \E t \in WakeSenders : InsIov(t)
    \/ \E t \in WakeSenders : InsPublish(t)
    \/ \E t \in WakeSenders, memok \in BOOLEAN : InsExit(t, memok)
    \/ \E t \in WakeSenders : SendvFinish(t)
    \/ \E r \in RingSlots : Consume(r)
    \/ ncalls < MaxWakeCalls /\ NotifyCall(1, <<>>, TRUE)
    \/ NotifyStart(1)
    \/ NotifyLock(1)
    \/ NotifyRingSpace(1)
    \/ NotifyRingFind(1)
    \/ NotifyUnlock(1)
    \/ \E t \in {1, 2, 4} : Return(t)

SpecWake == Init /\ [][NextWake]_vars

\* C16: the step of notify that harvests a ring removes from its pending list
\* exactly the entries whose length is at most the free space the ring has at
\* that moment, and moves exactly those to the list of domains to signal.
C16_HarvestByCurrentSpace ==
    [][\A t \in Threads :
        pc[t] = "ntf_find" /\ pc'[t] # "ntf_find"
            => LET r == Head(loc[t].todo)
                   space == v4v_ringbuf_payload_space(r)
                   pending == ring_info[r].pending
               IN /\ ring_info'[r].pending = SelectSeq(pending, LAMBDA e : e.len > space)
                  /\ loc'[t].to_notify = Harvest(pending, space, loc[t].to_notify)]_vars

\* C17: after a sendv of n bytes by B returned EAGAIN, the consumer advanced
\* rx_ptr and a notify called after that signalled B for its pending entry, the
\* next sendv on the ring, when it is B's with the same n bytes and was called
\* after the signal, does not return EAGAIN.
C17_RetryAfterWakeFits ==
    \A t \in Threads : pc[t] = "ins_exit" /\ loc[t].woken => loc[t].ret # -EAGAIN

\* the thread that takes the step holds no ring_info->lock
NoRingLock(t) == \A r \in RingSlots : ring_info[r].lock # t

\* C18: the step of sendv that ends the critical section is the only step of
\* sendv that signals; it raises the destination's event channel by exactly
\* one when sendv returns a result >= 0, and then the call has published its
\* tx_ptr, and leaves every event channel alone when sendv returns an error;
\* whenever an event channel is signalled, by sendv or by notify, the thread
\* that signals holds no ring lock.
C18_SignalOncePerSend ==
    [][/\ \A t \in Threads :
            pc[t] = "sendv_fin" /\ pc'[t] # "sendv_fin"
                => /\ loc'[t].ret = loc[t].ret
                   /\ evtchn' = IF loc[t].ret >= 0
                                 THEN [evtchn EXCEPT ![loc[t].dst.domain] = @ + 1]
                                 ELSE evtchn
                   /\ loc[t].ret >= 0 => loc[t].pub
       /\ \A t \in Threads :
            loc'[t].op = "sendv" /\ pc'[t] # pc[t] /\ pc[t] # "sendv_fin"
                => evtchn' = evtchn
       /\ evtchn' # evtchn
            => \E t \in Threads : /\ pc'[t] # pc[t]
                                  /\ pc[t] \in {"sendv_fin", "ntf_unl"}
                                  /\ NoRingLock(t)]_vars

\* a sendv that inserted its message and one that returned EAGAIN have both
\* returned, and the destination was signalled once
C18_Witness ==
    /\ \E t \in Threads : pc[t] = "ret" /\ loc[t].op = "sendv" /\ loc[t].ret > 0
    /\ \E t \in Threads : pc[t] = "ret" /\ loc[t].op = "sendv" /\ loc[t].ret = -EAGAIN
    /\ evtchn[1] = 1

(***************************************************************************)
(* Messages that go round the end of a ring of 96 bytes: domain 2 sends,   *)
(* the consumer of domain 1 reads.                                         *)
(***************************************************************************)
WrapRegArg == RegArg(Hdr(1, V4V_DOMID_ANY, 0, 0, 96), 1, TRUE, 1, <<1>>, TRUE)

\* an iovec of n bytes v + 1, v + 2, ...
WrapIov(n, v) == [Iov(n, v, TRUE) EXCEPT !.data = [k \in 1 .. n |-> v + k]]

\* payloads of 16, 8 + 24 and 8 bytes: messages of 32, 48 and 32 bytes
WrapSendArgs ==
    {SendArg(Addr(1, 1), <<WrapIov(16, 16)>>, TRUE, 1),
     SendArg(Addr(1, 1), <<WrapIov(8, 32), WrapIov(24, 64)>>, TRUE, 2),
     SendArg(Addr(1, 1), <<WrapIov(8, 96)>>, TRUE, 1)}

WrapSenders == {2}

NextWrap ==
    \/ ncalls < MaxWrapCalls
            /\ RegisterCall(1, WrapRegArg.h, WrapRegArg.hnd, WrapRegArg.npage,
                            WrapRegArg.pfns, WrapRegArg.ok)
    \/ RingAddCheck(1)
    \/ RingAddFind(1, TRUE, TRUE)
    \/ RingAddLock(1)
    \/ RingAddInsert(1)
    \/ \E t \in WrapSenders, a \in WrapSendArgs :
            ncalls < MaxWrapCalls
                /\ SendvCall(t, Addr(DomOf(t), 5), a.dst, a.proto, a.g, a.niov)
    \/ \E t \in WrapSenders :
            \/ SendvLookup(t)
            \/ SendvFind(t)
            \/ InsStart(t)
            \/ InsResetTx(t)
            \/ InsResetRx(t)
            \/ InsHdr(t)
            \/ InsIov(t)
            \/ InsPublish(t)
            \/ InsExit(t, TRUE)
            \/ SendvFinish(t)
    \/ \E r \in RingSlots : Consume(r)
    \/ \E t \in {1, 2} : Return(t)

SpecWrap == Init /\ [][NextWrap]_vars

\* the n bytes the consumer reads from payload offset off of ring r, going
\* round the end of the ring
PayloadAt(r, off, n) ==
    [k \in 1 .. n |->
        LET o == RING_HDR + ((off + k - 1) % ring_info[r].len)
        IN Byte(Get8(mem[ring_info[r].mfns[(o \div PAGE_SIZE) + 1]], o % PAGE_SIZE))]

\* C19: every step of the consumer of a ring whose frames cover it, which
\* reads the message at rx_ptr and moves rx_ptr past it, reads the oldest
\* message that a successful sendv published and that was not read yet: it
\* lies at rx_ptr, and its length, its source and its payload bytes are those
\* of that sendv, wherever the message goes round the end of the ring.
C19_ConsumerReadsWhatWasSent ==
    [][\A r \in RingSlots :
        pc' = pc /\ Covered(r) /\ GuestRx(r)' # GuestRx(r)
            => /\ hist.q[r] # <<>>
               /\ LET m == Head(hist.q[r])
                      rx == GuestRx(r)
                  IN /\ m.off = rx
                     /\ HeaderAt(r, rx)[1] = m.len
                     /\ <<HeaderAt(r, rx)[3], HeaderAt(r, rx)[2]>> = m.src
                     /\ PayloadAt(r, (rx + MSG_HDR) % ring_info[r].len, m.len - MSG_HDR)
                            = m.data]_vars

(***************************************************************************)
(* Waiting for space: domain 1 owns the rings; domain 2 and the second     *)
(* vCPU of domain 1 send to them and ask for space; domain 1 notifies.     *)
(***************************************************************************)
\* an empty ring open to any partner and a ring that has 16 bytes free
PendRegArgs ==
    {RegArg(Hdr(1, V4V_DOMID_ANY, 0, 0, 64), 1, TRUE, 1, <<1>>, TRUE),
     RegArg(Hdr(2, V4V_DOMID_ANY, 0, 32, 64), 2, TRUE, 1, <<2>>, TRUE)}

PendSendArgs ==
    {SendArg(Addr(1, 1), <<Iov(16, 7, TRUE)>>, TRUE, 1),
     SendArg(Addr(1, 2), <<Iov(16, 7, TRUE)>>, TRUE, 1),
     SendArg(Addr(1, 2), <<Iov(32, 7, TRUE)>>, TRUE, 1)}

DataEnt(port, space_required) == [ring |-> Addr(1, port), space_required |-> space_required]

\* the ring_data arrays of the notify calls; << >> is the null handle
PendDataArgs ==
    {<<>>, <<DataEnt(2, 16)>>, <<DataEnt(2, 40)>>, <<DataEnt(1, 16), DataEnt(9, 16)>>}

PendSenders == {2, 3}

\* the vCPUs that call notify
PendThreads == {1, 2, 3}

NextPend ==
    \/ \E a \in PendRegArgs :
            ncalls < MaxPendCalls /\ RegisterCall(1, a.h, a.hnd, a.npage, a.pfns, a.ok)
    \/ RingAddCheck(1)
    \/ RingAddFind(1, TRUE, TRUE)
    \/ RingAddLock(1)
    \/ RingAddInsert(1)
    \/ \E t \in PendSenders, a \in PendSendArgs :
            ncalls < MaxPendCalls
                /\ SendvCall(t, [a.src EXCEPT !.domain = DomOf(t)], a.dst, a.proto, a.g, a.niov)
    \/ \E t \in PendSenders : SendvLookup(t)
    \/ \E t \in PendSenders : SendvFind(t)
    \/ \E t \in PendSenders : InsStart(t)
    \/ \E t \in PendSenders : InsResetTx(t)
    \/ \E t \in PendSenders : InsResetRx(t)
    \/ \E t \in PendSenders : InsHdr(t)
    \/ \E t \in PendSenders : InsIov(t)
    \/ \E t \in PendSenders : InsPublish(t)
    \/ \E t \in PendSenders, memok \in BOOLEAN : InsExit(t, memok)
    \/ \E t \in PendSenders : SendvFinish(t)
    \/ \E r \in RingSlots : Consume(r)
    \/ \E t \in PendThreads, ents \in PendDataArgs, ok \in BOOLEAN :
            ncalls < MaxPendCalls /\ (ents = <<>> => ok) /\ NotifyCall(t, ents, ok)
    \/ \E t \in PendThreads : NotifyStart(t)
    \/ \E t \in PendThreads : NotifyLock(t)
    \/ \E t \in PendThreads : NotifyRingSpace(t)
    \/ \E t \in PendThreads : NotifyRingFind(t)
    \/ \E t \in PendThreads : NotifyUnlock(t)
    \/ \E t \in PendThreads, memok \in BOOLEAN : NotifyFill(t, memok)
    \/ \E t \in PendThreads : Return(t)

SpecPend == Init /\ [][NextPend]_vars

\* C6: the pending list of every ring holds at most one entry per sender domain.
C6_OnePendingPerSender ==
    \A r \in RingSlots :
        \A i, j \in 1 .. Len(ring_info[r].pending) :
            i # j => ring_info[r].pending[i].id # ring_info[r].pending[j].id

\* both sender domains wait on one ring, and domain 2, which already waited for
\* 32 bytes there, just got EAGAIN for 16 bytes
C6_Witness ==
    \E r \in RingSlots :
        /\ Len(ring_info[r].pending) = 2
        /\ \E k \in 1 .. 2 : ring_info[r].pending[k] = [id |-> 2, len |-> 32]
        /\ pc[2] = "ret" /\ loc[2].op = "sendv" /\ loc[2].ret = -EAGAIN /\ loc[2].len = 16

\* the entries of domain d in a pending list
EntriesOf(pending, d) == SelectSeq(pending, LAMBDA e : e.id = d)

\* C23: when notify handles a space-report entry of caller C that names an
\* existing ring R (partner C first, then any partner), it reports EXISTS, and
\* SUFFICIENT exactly when the payload space of R is at least space_required;
\* if sufficient, C has no pending entry on R afterwards, otherwise C has
\* exactly one, with len >= space_required; for an entry that names no ring
\* it reports no flag and changes no ring; guest memory is not written but
\* for the flags it reports.
C23_SpaceReport ==
    [][\A t \in Threads :
        pc[t] = "ntf_fill" /\ Len(loc'[t].out) = Len(loc[t].out) + 1
            => LET ent == loc[t].ents[loc[t].i]
                   dst_d == ent.ring.domain
                   exact == IF dst_d \in Doms /\ v4v[dst_d]
                            THEN RingFor(dst_d, ent.ring.port, DomOf(t)) ELSE 0
                   any == IF dst_d \in Doms /\ v4v[dst_d]
                          THEN RingFor(dst_d, ent.ring.port, V4V_DOMID_ANY) ELSE 0
                   R == IF exact # 0 THEN exact ELSE any
                   flags == loc'[t].out[Len(loc'[t].out)]
                   mine == EntriesOf(ring_info'[R].pending, DomOf(t))
               IN /\ mem' = mem
                  /\ IF R = 0 THEN flags = {} /\ ring_info' = ring_info
                     ELSE /\ "EXISTS" \in flags
                          /\ "SUFFICIENT" \in flags
                                <=> v4v_ringbuf_payload_space(R) >= ent.space_required
                          /\ IF "SUFFICIENT" \in flags THEN mine = <<>>
                             ELSE Len(mine) = 1 /\ mine[1].len >= ent.space_required]_vars

\* C24: a step after which a pending entry of domain s on ring r is gone, or
\* is there with a smaller len, is a harvest of r by a notify of r's owner, a
\* space report of s that finds sufficient space on r, or the removal of r; so
\* no step of a sendv removes a pending entry or lowers its len.
C24_PendingLeavesThreeWays ==
    [][\A r \in RingSlots, s \in Doms :
        LET old == EntriesOf(ring_info[r].pending, s)
            new == EntriesOf(ring_info'[r].pending, s)
        IN (\E k \in 1 .. Len(old) : \A j \in 1 .. Len(new) : new[j].len < old[k].len)
            => \/ \E t \in Threads :
                    /\ pc[t] = "ntf_find" /\ pc'[t] # "ntf_find"
                    /\ Head(loc[t].todo) = r /\ DomOf(t) = ring_info[r].id.domain
               \/ \E t \in Threads :
                    /\ pc[t] = "ntf_fill" /\ Len(loc'[t].out) = Len(loc[t].out) + 1
                    /\ DomOf(t) = s
                    /\ "SUFFICIENT" \in loc'[t].out[Len(loc'[t].out)]
                    /\ loc[t].ents[loc[t].i].ring.domain = ring_info[r].id.domain
                    /\ loc[t].ents[loc[t].i].ring.port = ring_info[r].id.port
               \/ ~ring_info'[r].used]_vars

\* a sendv of domain 3 has put its message into a ring on which domain 3 still
\* has the pending entry of an earlier EAGAIN
C24_Witness ==
    \E t \in Threads :
        /\ pc[t] = "ret" /\ loc[t].op = "sendv" /\ loc[t].ret > 0
        /\ EntriesOf(ring_info[loc[t].info].pending, DomOf(t)) # <<>>

Holds1(t) == l1.r[t] > 0 \/ l1.w = t

Holds2(t) == \E d \in Doms : l2[d].r[t] > 0 \/ l2[d].w = t

\* thread t copies the message header or an iovec into the destination ring
CopiesToRing(t) == pc[t] \in {"ins_hdr", "ins_iov"} /\ <<pc[t], loc[t]>>' # <<pc[t], loc[t]>>

\* C27: no thread holds the L2 of any domain, for reading or for writing, in a
\* step in which it copies bytes from or to guest memory; in sendv the copies
\* of the iovecs into the destination ring are made with L2 released.
C27_NoL2AcrossCopy ==
    [][\A t \in Threads : CopiesToRing(t) => ~Holds2(t)]_vars

(***************************************************************************)
(* V4VOP_info: do_v4v_op and v4v_info.                                     *)
(***************************************************************************)
\* hnd_ok: guest_handle_okay(info_hnd, 1)
InfoCall(t, hnd_ok) ==
    LET d == DomOf(t)
        l == [DefaultLoc EXCEPT !.op = "info"]
    IN
    /\ pc[t] = "idle"
    /\ domain_lock_free(d)
    /\ domlock' = [domlock EXCEPT ![d] = t]
    /\ ncalls' = ncalls + 1
    /\ IF hnd_ok THEN Goto(t, "info_l2", l) ELSE RetWith(t, l, -EFAULT)
    /\ UNCHANGED <<v4vtables_rules, v4v, evtchn, ring_hash, ring_info, pin, mem, l1, l2, giov, hist>>

\* v4v_info: read_lock(&d->v4v->lock), of a domain that has its v4v state
InfoLock(t) ==
    LET d == DomOf(t) IN
    /\ pc[t] = "info_l2"
    /\ v4v[d]
    /\ CanRead(l2[d])
    /\ l2' = [l2 EXCEPT ![d] = read_lock(@, t)]
    /\ Goto(t, "info_out", loc[t])
    /\ UNCHANGED <<v4vtables_rules, v4v, evtchn, ring_hash, ring_info, pin, mem, l1, domlock, giov, ncalls, hist>>

\* the three fields, read_unlock(&d->v4v->lock) and __copy_to_guest
InfoUnlock(t, memok) ==
    LET d == DomOf(t) IN
    /\ pc[t] = "info_out"
    /\ l2' = [l2 EXCEPT ![d] = read_unlock(@, t)]
    /\ Ret(t, IF memok THEN 0 ELSE -EFAULT)
    /\ UNCHANGED <<v4vtables_rules, v4v, evtchn, ring_hash, ring_info, pin, mem, l1, domlock, giov, ncalls, hist>>

(***************************************************************************)
(* Locks and teardown: domain 1 registers a ring open to any partner,      *)
(* unregisters it, consumes, notifies and asks for info from two vCPUs;    *)
(* domain 2 registers a ring of its own and sends 16 bytes at a time to    *)
(* domain 1; either domain is destroyed while none of its vCPUs is inside  *)
(* a hypercall.                                                            *)
(***************************************************************************)
MaxLockCalls == 5

LockRegArg(t) ==
    IF DomOf(t) = 1 THEN WakeRegArg
    ELSE RegArg(Hdr(3, 1, 0, 0, 64), 3, TRUE, 1, <<3>>, TRUE)

NextLock ==
    \/ \E t \in {1, 2} :
            ncalls < MaxLockCalls
                /\ RegisterCall(t, LockRegArg(t).h, LockRegArg(t).hnd, LockRegArg(t).npage,
                                LockRegArg(t).pfns, LockRegArg(t).ok)
    \/ \E t \in {1, 2} : RingAddCheck(t)
    \/ \E t \in {1, 2} : RingAddFind(t, TRUE, TRUE)
    \/ \E t \in {1, 2} : RingAddLock(t)
    \/ \E t \in {1, 2} : RingAddInsert(t)
    \/ ncalls < MaxLockCalls /\ RemoveCall(1, 1)
    \/ RingRemoveCheck(1)
    \/ RingRemoveLock(1)
    \/ RingRemoveDo(1)
    \/ ncalls < MaxLockCalls
            /\ SendvCall(2, [WakeSendArg.src EXCEPT !.domain = 2], WakeSendArg.dst,
                         WakeSendArg.proto, WakeSendArg.g, WakeSendArg.niov)
    \/ SendvLookup(2)
    \/ SendvFind(2)
    \/ InsStart(2)
    \/ InsResetTx(2)
    \/ InsResetRx(2)
    \/ InsHdr(2)
    \/ InsIov(2)
    \/ InsPublish(2)
    \/ InsExit(2, TRUE)
    \/ SendvFinish(2)
    \/ \E r \in RingSlots : Consume(r)
    \/ ncalls < MaxLockCalls /\ NotifyCall(1, <<>>, TRUE)
    \/ NotifyStart(1)
    \/ NotifyLock(1)
    \/ NotifyRingSpace(1)
    \/ NotifyRingFind(1)
    \/ NotifyUnlock(1)
    \/ \E hnd_ok \in BOOLEAN : ncalls < MaxLockCalls /\ InfoCall(3, hnd_ok)
    \/ InfoLock(3)
    \/ \E memok \in BOOLEAN : InfoUnlock(3, memok)
    \/ \E d \in {1, 2} : (\A t \in Threads : DomOf(t) = d => pc[t] = "idle") /\ Destroy(d)
    \/ \E t \in {1, 2, 3} : Return(t)

SpecLock == Init /\ [][NextLock]_vars

\* thread t acquires L1 in this step, for reading or for writing
Takes1(t) == l1'.r[t] > l1.r[t] \/ (l1'.w = t /\ l1.w # t)

\* thread t acquires the L2 of some domain in this step
Takes2(t) ==
    \E d \in Doms : l2'[d].r[t] > l2[d].r[t] \/ (l2'[d].w = t /\ l2[d].w # t)

\* C26: locks are acquired in the order L1, L2, L3: no thread acquires L1 while
\* it holds an L2 or an L3, nor an L2 while it holds an L3, and a thread that
\* acquires the L2 of a domain (an access to its PerDomainState) holds L1.
C26_LockOrder ==
    [][\A t \in Threads :
            /\ Takes1(t) => ~Holds2(t) /\ NoRingLock(t)
            /\ Takes2(t) => NoRingLock(t) /\ Holds1(t)]_vars

\* C28: a RingInfo is linked into the registry of a domain, or unlinked from it
\* (unregister_ring, v4v_destroy), only by a thread that holds W(L2) of that
\* domain: the ASSERT of v4v_ring_remove_info and v4v_ring_remove_mfns holds.
C28_RegistryUnderWriteLock ==
    [][\A d \in Doms :
            ring_hash'[d] # ring_hash[d]
                => \E t \in Threads : l2[d].w = t /\ pc'[t] # pc[t]]_vars

\* C30: a notify that signals the domains of the entries it harvested signals,
\* for each entry, a domain that has its v4v state (its event-channel port), or
\* skips the entry: it never reads d->v4v of a domain whose v4v state
\* v4v_destroy has taken away.
C30_SignalsOnlyLiveDomains ==
    [][\A t \in Threads :
            pc[t] = "ntf_unl" /\ pc'[t] # "ntf_unl"
                => \A k \in 1 .. Len(loc[t].to_notify) :
                        get_domain_by_id(loc[t].to_notify[k].id) => v4v[loc[t].to_notify[k].id]]_vars

\* C29: a tables_del by position p, counted from 0, removes the rule at that
\* position and keeps the contents and the order of the others; when the list
\* has no rule there (p at or beyond its end, or the list empty) the list stays
\* as it is; position -1 with a null rule handle removes every rule.
C29_DelByPosition ==
    [][\A t \in Threads :
        pc[t] = "idle" /\ pc'[t] = "ret" /\ loc'[t].op = "tables_del" /\ loc'[t].ret = 0
            => LET old == v4vtables_rules
                   new == v4vtables_rules'
                   p == loc'[t].i
               IN /\ (p >= 0 /\ p < Len(old))
                        => new = [k \in 1 .. Len(old) - 1 |-> old[IF k <= p THEN k ELSE k + 1]]
                  /\ p >= Len(old) => new = old
                  /\ (p = -1 /\ loc'[t].rule = NoRule) => new = <<>>]_vars

\* C31: a thread whose hypercall has reached the return of do_v4v_op holds
\* none of L1, the L2 of any domain and the L3 of any ring: every lock the
\* call acquired has been released.
C31_NoLockOnReturn ==
    \A t \in Threads : pc[t] = "ret" => ~Holds1(t) /\ ~Holds2(t) /\ NoRingLock(t)

\* C34: a call that has reached the return of do_v4v_op holds no reference to
\* a domain: every reference get_domain_by_id gave it was released by
\* put_domain, whichever way the call ends.
C34_NoDomainRefOnReturn ==
    \A t \in Threads : pc[t] = "ret" => loc[t].dref = 0

\* the payload offsets of a ring of len bytes that hold data the consumer has
\* not consumed: from rx up to tx, around the end of the ring
Unconsumed(len, rx, tx) ==
    {o \in 0 .. len - 1 : (o - rx + len) % len < (tx - rx + len) % len}

RingsHeld(t) ==
    IF pc[t] \in {"sendv_l3", "ins_reset_tx", "ins_reset_rx", "ins_hdr", "ins_iov", "ins_pub",
                  "ins_exit", "sendv_fin"}
    THEN {loc[t].info}
    ELSE IF pc[t] \in {"ntf_space", "ntf_find"}
    THEN {loc[t].todo[k] : k \in 1 .. Len(loc[t].todo)}
    ELSE {}

\* the domain in whose registry thread t found the rings it holds
HeldIn(t) == IF loc[t].op = "sendv" THEN loc[t].dst.domain ELSE DomOf(t)

\* C33: a RingInfo that a sendv or a notify has looked up and still uses is
\* allocated and linked in the registry it was found in: neither
\* unregister_ring nor v4v_destroy removes it before the thread has released
\* the L2 of the owning domain.
C33_HeldRingStaysRegistered ==
    \A t \in Threads :
        \A r \in RingsHeld(t) : ring_info[r].used /\ r \in RingsOf(HeldIn(t))

\* unregister_ring waits for W(L2) while a sendv is inside the insert into the
\* ring it is about to remove
C33_Witness ==
    /\ pc[1] = "rem_l2w"
    /\ pc[2] \in {"ins_hdr", "ins_iov", "ins_pub"}
    /\ v4v_ring_find_info(1, loc[1].ring.id) = loc[2].info

(***************************************************************************)
(* The iovec array under the sender's feet: domain 1 owns a ring of 96     *)
(* bytes and consumes; a vCPU of domain 2 sends one iovec of 16 bytes      *)
(* while another vCPU of domain 2 rewrites the v4v_iov_t in guest memory.  *)
(***************************************************************************)
MaxIovCalls == 3

\* what the other vCPU writes over the iovec: 32 bytes, or 8
IovRewrites == {<<WrapIov(32, 32)>>, <<WrapIov(8, 64)>>}

\* a vCPU of the domain of t stores to the iovec array the sendv of t was
\* called with
GuestWritesIov(t, iovs) ==
    /\ pc[t] \notin {"idle", "ret"}
    /\ loc[t].op = "sendv"
    /\ giov[t].iovs # iovs
    /\ giov' = [giov EXCEPT ![t].iovs = iovs]
    /\ UNCHANGED <<v4vtables_rules, v4v, evtchn, ring_hash, ring_info, pin, mem, l1, l2, domlock, pc, loc, ncalls, hist>>

NextIov ==
    \/ ncalls < MaxIovCalls
            /\ RegisterCall(1, WrapRegArg.h, WrapRegArg.hnd, WrapRegArg.npage, WrapRegArg.pfns,
                            WrapRegArg.ok)
    \/ RingAddCheck(1)
    \/ RingAddFind(1, TRUE, TRUE)
    \/ RingAddLock(1)
    \/ RingAddInsert(1)
    \/ ncalls < MaxIovCalls
            /\ SendvCall(2, Addr(2, 5), Addr(1, 1), 3,
                         [readable |-> TRUE, iovs |-> <<WrapIov(16, 16)>>], 1)
    \/ \E iovs \in IovRewrites : GuestWritesIov(2, iovs)
    \/ SendvLookup(2)
    \/ SendvFind(2)
    \/ InsStart(2)
    \/ InsResetTx(2)
    \/ InsResetRx(2)
    \/ InsHdr(2)
    \/ InsIov(2)
    \/ InsPublish(2)
    \/ InsExit(2, TRUE)
    \/ SendvFinish(2)
    \/ \E r \in RingSlots : Consume(r)
    \/ \E t \in {1, 2} : Return(t)

SpecIov == Init /\ [][NextIov]_vars

\* C35: the sendv that publishes a message has written as many payload bytes
\* as v4v_iov_count counted, the length its EMSGSIZE and EAGAIN tests were made
\* on and its header reports, and moves tx_ptr by that length rounded up plus
\* the header, also when the iovec array was rewritten in between.
C35_CopiesWhatItCounted ==
    [][\A t \in Threads :
        LET r == loc[t].info
            start == MsgStart(loc[t].pre)
            len == loc[t].len
        IN (pc[t] = "ins_pub" /\ pc'[t] # "ins_pub")
            => /\ loc[t].tx = (start + MSG_HDR + len) % ring_info[r].len
               /\ ring_info'[r].tx_ptr = (start + MSG_HDR + V4V_ROUNDUP(len)) % ring_info[r].len
               /\ HeaderAt(r, start)[1] = len + MSG_HDR]_vars

\* the ring a space-report entry of thread t names: the ring of the entry's
\* domain and port whose partner is the caller, else the one open to any
ReportedRing(t) ==
    LET ent == loc[t].ents[loc[t].i]
        dst_d == ent.ring.domain
        exact == IF dst_d \in Doms /\ v4v[dst_d]
                 THEN RingFor(dst_d, ent.ring.port, DomOf(t)) ELSE 0
        any == IF dst_d \in Doms /\ v4v[dst_d]
               THEN RingFor(dst_d, ent.ring.port, V4V_DOMID_ANY) ELSE 0
    IN IF exact # 0 THEN exact ELSE any

\* C36: the flags notify reports for a space-report entry that names an
\* existing ring contain EMPTY exactly when the ring holds no unconsumed
\* data, that is when the rx_ptr read from the guest equals tx_ptr.
C36_EmptyIffNoUnconsumedData ==
    [][\A t \in Threads :
        (pc[t] = "ntf_fill" /\ Len(loc'[t].out) = Len(loc[t].out) + 1
            /\ ReportedRing(t) # 0)
            => ("EMPTY" \in loc'[t].out[Len(loc'[t].out)]
                    <=> GuestRx(ReportedRing(t)) = ring_info[ReportedRing(t)].tx_ptr)]_vars


====
